---- MODULE Spec2Model ----
(***************************************************************************)
(* A model of mcp-memory-rust: the three SQLite corpora (memories,         *)
(* memory_chunks, embedding_cache, the FTS5 index memories_fts and its     *)
(* triggers), the MCP tool handlers of main.rs, the conversation hook of   *)
(* hook.rs and the background embedding worker of embedding.rs.            *)
(*                                                                         *)
(* A text is the sequence of its whitespace-separated tokens; a tags       *)
(* string is the sequence of its comma-separated tags.  SQL NULL is the    *)
(* empty tuple.  SHA-256 prefixes are modelled as injective on the inputs  *)
(* of the model: an id is the tuple of what is hashed.                     *)
(***************************************************************************)
EXTENDS Integers, Sequences, FiniteSets, TLC

VARIABLES
    mem,      \* corpus -> set of rows of table memories
    fts,      \* corpus -> the FTS5 index memories_fts: postings [rowid, col, tok]
    chunks,   \* corpus -> set of rows of table memory_chunks
    cache,    \* corpus -> set of rows of table embedding_cache
    exists,   \* the corpora whose database file exists
    queue,    \* the jobs buffered in the mpsc channel, oldest first
    running,  \* the spawn_blocking tasks in flight: [job, pc, idx], oldest first
    now,      \* the reading of the system clock
    session,  \* the hook's session file .current_session.json
    ret,      \* the result of the last tool call when it was a memory_save that
              \* saved: [db, content, id, dedup, sent]; NoSave otherwise
    handlers, \* the tool handlers in flight: handler -> its position and locals
    embedder  \* the thread that holds the lock of EmbeddingEngine.model

vars == <<mem, fts, chunks, cache, exists, queue, running, now, session, ret,
          handlers, embedder>>

(***************************************************************************)
(* Bounds of the model.                                                    *)
(***************************************************************************)
\* the capacity of the job channel as the model runs it (256 in embedding.rs:93)
QueueCap == 2
\* the most rows the model inserts into the memories tables, all corpora together
MaxRows == 2
\* the highest rowid the model lets a memories table hand out
MaxRowid == 3
\* the last reading of the clock
MaxClock == 1
\* the most turns the model lets the hook record in the session file
MaxHookTurns == 2

(***************************************************************************)
(* Program constants.                                                      *)
(***************************************************************************)
CHUNK_SIZE == 400
CHUNK_OVERLAP == 80
DEDUP_CANDIDATES == 10
DEDUP_TERMS == 20
MIN_TERM_LEN == 2
\* the dedup threshold 0.85, in hundredths
THRESHOLD_PCT == 85

NULL == <<>>
Corpora == {"global", "personality", "project"}
MODEL_NAME == "all-MiniLM-L6-v2"

(***************************************************************************)
(* The texts the model saves.  K2 is K1 with another case of one token and *)
(* one more token: Jaccard 6/7 >= 0.85, a near-duplicate.  K3 has no token *)
(* of more than MIN_TERM_LEN characters.  Long has one token more than     *)
(* CHUNK_SIZE, so the worker splits it in two chunks.                      *)
(***************************************************************************)
K1 == <<"use", "sqlite", "for", "local", "storage", "here">>
K2 == <<"Use", "sqlite", "for", "local", "storage", "here", "now">>
K3 == <<"go", "on">>
Long == [i \in 1..(CHUNK_SIZE + 1) |-> "w"]
Empty == <<>>

Range(s) == {s[i] : i \in 1..Len(s)}

Min(a, b) == IF a <= b THEN a ELSE b

\* A text is the sequence of its words, one blank understood between two
\* adjacent words; Gap stands for any other run of whitespace (leading,
\* trailing, two blanks, a newline, a tab) at the place where it occurs.
Gap == "\n"

\* str::to_lowercase on the tokens of the model
to_lowercase(tok) ==
    CASE tok = "Use" -> "use"
      [] tok = "Hello" -> "hello"
      [] tok = "Session" -> "session"
      [] tok = "Topics:" -> "topics:"
      [] tok = "Responded" -> "responded"
      [] OTHER -> tok

\* the FTS5 tokenizer (unicode61) on the tokens of the model: case is folded
\* and punctuation separates
unicode61(tok) ==
    CASE tok = "Use" -> {"use"}
      [] tok = "Session" -> {"session"}
      [] tok = "Topics:" -> {"topics"}
      [] tok = "Responded" -> {"responded"}
      [] tok = "turns)" -> {"turns"}
      [] tok = "[proj]" -> {"proj"}
      [] tok = "-" -> {}
      [] tok = Gap -> {}
      [] tok = "(0" -> {"0"}
      [] tok = "(1" -> {"1"}
      [] tok = "(2" -> {"2"}
      [] tok = "(3" -> {"3"}
      [] tok = "claude-code" -> {"claude", "code"}
      [] tok = "auto-saved" -> {"auto", "saved"}
      [] tok = "no-project" -> {"no", "project"}
      [] OTHER -> {tok}

\* str::split_whitespace: the words of a text, the whitespace dropped
split_whitespace(text) == SelectSeq(text, LAMBDA w : w # Gap)

\* the set of lowercased tokens of a text
TokenSet(text) == {to_lowercase(w) : w \in Range(split_whitespace(text))}

\* a jaccard_sim on the words as they are written
jaccard_sim_as_written(text_a, text_b) ==
    LET words_a == Range(split_whitespace(text_a))
        words_b == Range(split_whitespace(text_b))
    IN  IF words_a = {} \/ words_b = {}
        THEN <<0, 1>>
        ELSE <<Cardinality(words_a \cap words_b), Cardinality(words_a \cup words_b)>>

\* dedup.rs jaccard_sim, as the pair <<|A \cap B|, |A \cup B|>>; <<0, 1>> is 0.0
jaccard_sim(text_a, text_b) ==
    LET words_a == TokenSet(text_a)
        words_b == TokenSet(text_b)
    IN  IF words_a = {} \/ words_b = {}
        THEN <<0, 1>>
        ELSE <<Cardinality(words_a \cap words_b), Cardinality(words_a \cup words_b)>>

\* jaccard_sim(a, b) >= threshold, the threshold given in hundredths
AtLeast(sim, pct) == sim[1] * 100 >= pct * sim[2]

\* windows that follow one another without overlap
RECURSIVE Windows_without_overlap(_, _, _, _)
Windows_without_overlap(words, start, chunk_size, overlap) ==
    LET end == Min(start + chunk_size, Len(words))
        chunk == SubSeq(words, start + 1, end)
    IN  IF end >= Len(words)
        THEN <<chunk>>
        ELSE <<chunk>> \o Windows_without_overlap(words, start + chunk_size, chunk_size, overlap)

\* chunking.rs chunk_text, the loop: the windows from token index start
\* (0-based) on, each the words joined by one blank
RECURSIVE Windows(_, _, _, _)
Windows(words, start, chunk_size, overlap) ==
    LET end == Min(start + chunk_size, Len(words))
        chunk == SubSeq(words, start + 1, end)
    IN  IF end >= Len(words)
        THEN <<chunk>>
        ELSE <<chunk>> \o Windows(words, start + (chunk_size - overlap), chunk_size, overlap)

\* a chunk_text that joins the words of a short text as well
chunk_text_always_joined(text, chunk_size, overlap) ==
    Windows(split_whitespace(text), 0, chunk_size, overlap)

chunk_text(text, chunk_size, overlap) ==
    LET words == split_whitespace(text)
    IN  IF Len(words) <= chunk_size
        THEN <<text>>
        ELSE Windows(words, 0, chunk_size, overlap)

(***************************************************************************)
(* SHA-256 and the Embedder.                                               *)
(***************************************************************************)
\* storage.rs generate_id: sha256("{type}:{content}:{now}")[..16]
generate_id(content, mem_type, t) == <<mem_type, content, t>>

\* hook.rs session_memory_id: sha256("session:{session_id}")[..16]
session_memory_id(session_id) == <<"session", session_id>>

\* embedding.rs compute_text_hash: sha256("{model}:{text}")
compute_text_hash(text, model) == <<model, text>>

\* the vector a successful Embedder call returns for a text (deterministic)
Embed(text) == <<"vec", text>>

\* embedding.rs f32_to_bytes / bytes_to_f32 on the vectors of the model
f32_to_bytes(v) == <<"blob", v>>
\* a read of the cache that hands the stored bytes on without decoding them
bytes_to_f32_undecoded(bytes) == bytes

bytes_to_f32(bytes) == bytes[2]

(***************************************************************************)
(* SQLite: the tables of one corpus and the triggers of init_db.           *)
(***************************************************************************)
Max(S) == CHOOSE x \in S : \A y \in S : y <= x

\* the tokens the FTS5 index takes from a column
FtsTokens(text) == UNION {unicode61(w) : w \in Range(text)}

\* what the FTS5 index holds for (rowid, content, tags): one posting for each
\* token of each column
Postings(rowid, content, tags) ==
    {[rowid |-> rowid, col |-> "content", tok |-> w] : w \in FtsTokens(content)}
    \cup {[rowid |-> rowid, col |-> "tags", tok |-> w] : w \in FtsTokens(tags)}

\* trigger memories_ai
memories_ai(f, new) == f \cup Postings(new.rowid, new.content, new.tags)

\* trigger memories_ad: the FTS5 'delete' command with the old values
memories_ad(f, old) == f \ Postings(old.rowid, old.content, old.tags)

\* memories_au without its second statement: the new values are not indexed
memories_au_delete_only(f, old, new) == f \ Postings(old.rowid, old.content, old.tags)

\* trigger memories_au: 'delete' of the old values, insert of the new ones
memories_au(f, old, new) ==
    (f \ Postings(old.rowid, old.content, old.tags))
    \cup Postings(new.rowid, new.content, new.tags)

\* the rowid SQLite gives a new row of a table without INTEGER PRIMARY KEY
NewRowid(rows) == IF rows = {} THEN 1 ELSE Max({r.rowid : r \in rows}) + 1

\* the rows of a table in rowid order
RECURSIVE ByRowid(_)
ByRowid(rows) ==
    IF rows = {} THEN <<>>
    ELSE LET r == CHOOSE x \in rows : \A y \in rows : x.rowid <= y.rowid
         IN  <<r>> \o ByRowid(rows \ {r})

Take(s, n) == SubSeq(s, 1, Min(n, Len(s)))

RowsWithId(rows, id) == {r \in rows : r.id = id}

RowOf(rows, id) == CHOOSE r \in rows : r.id = id

\* the DELETE on a connection without foreign_keys=ON: no cascade
SqlDeleteMemory_no_cascade(c, id) ==
    LET old == RowsWithId(mem[c], id)
    IN  << mem[c] \ old,
           IF old = {} THEN fts[c]
           ELSE memories_ad(fts[c], CHOOSE r \in old : TRUE),
           chunks[c] >>

\* DELETE FROM memories WHERE id = ?, with foreign_keys=ON: the new
\* <<memories, memories_fts, memory_chunks>>
SqlDeleteMemory(c, id) ==
    LET old == RowsWithId(mem[c], id)
    IN  << mem[c] \ old,
           IF old = {} THEN fts[c]
           ELSE memories_ad(fts[c], CHOOSE r \in old : TRUE),
           {k \in chunks[c] : k.memory_id # id} >>

(***************************************************************************)
(* dedup.rs                                                                *)
(***************************************************************************)
\* the rowids an FTS5 query "t1" OR "t2" ... matches: those that hold, in
\* one column, the tokens of one of the quoted terms (a term without a token
\* matches nothing)
FtsMatch(f, terms) ==
    {p.rowid : p \in {q \in f :
        \E i \in 1..Len(terms) :
            /\ q.tok \in unicode61(terms[i])
            /\ \A w \in unicode61(terms[i]) :
                  [rowid |-> q.rowid, col |-> q.col, tok |-> w] \in f}}

\* memories_fts f JOIN memories m ON f.rowid = m.rowid WHERE memories_fts
\* MATCH ?: the rows of memories that a matching rowid joins
FtsJoin(rows, f, terms) == {m \in rows : m.rowid \in FtsMatch(f, terms)}

\* find_duplicate without its first phase, the exact match
find_duplicate_no_exact(rows, f, content, mem_type, threshold) ==
    LET tokens == Take(split_whitespace(content), DEDUP_TERMS)
        fts_terms == SelectSeq(tokens, LAMBDA t : Len(t) > MIN_TERM_LEN)
        cand == Take(ByRowid({m \in FtsJoin(rows, f, fts_terms) : m.type = mem_type}),
                     DEDUP_CANDIDATES)
        hit == SelectSeq(cand, LAMBDA m : AtLeast(jaccard_sim(content, m.content), threshold))
    IN  IF fts_terms = <<>> \/ hit = <<>> THEN NULL ELSE hit[1].id

\* a find_duplicate that looks at the rows of every type
find_duplicate_any_type(rows, f, content, mem_type, threshold) ==
    LET exact == {r \in rows : r.content = content}
        tokens == Take(split_whitespace(content), DEDUP_TERMS)
        fts_terms == SelectSeq(tokens, LAMBDA t : Len(t) > MIN_TERM_LEN)
        cand == Take(ByRowid(FtsJoin(rows, f, fts_terms)), DEDUP_CANDIDATES)
        hit == SelectSeq(cand, LAMBDA m : AtLeast(jaccard_sim(content, m.content), threshold))
    IN  IF exact # {} THEN ByRowid(exact)[1].id
        ELSE IF fts_terms = <<>> \/ hit = <<>> THEN NULL
        ELSE hit[1].id

\* find_duplicate: the id of a duplicate of content among the rows, or NULL
find_duplicate(rows, f, content, mem_type, threshold) ==
    LET exact == {r \in rows : r.type = mem_type /\ r.content = content}
        tokens == Take(split_whitespace(content), DEDUP_TERMS)
        fts_terms == SelectSeq(tokens, LAMBDA t : Len(t) > MIN_TERM_LEN)
        cand == Take(ByRowid({m \in FtsJoin(rows, f, fts_terms) : m.type = mem_type}),
                     DEDUP_CANDIDATES)
        hit == SelectSeq(cand, LAMBDA m : AtLeast(jaccard_sim(content, m.content), threshold))
    IN  IF exact # {} THEN ByRowid(exact)[1].id
        ELSE IF fts_terms = <<>> \/ hit = <<>> THEN NULL
        ELSE hit[1].id

(***************************************************************************)
(* search.rs                                                               *)
(***************************************************************************)
\* search_fts: the rows the query returns.  LIMIT keeps limit * 3 of them,
\* the best by bm25, which the model does not compute: when there are more
\* matches than that, any limit * 3 of them stand for the result
search_fts(rows, f, query, limit) ==
    LET tokens == split_whitespace(query)
        hit == FtsJoin(rows, f, tokens)
    IN  IF tokens = <<>> THEN {}
        ELSE IF Cardinality(hit) <= limit * 3 THEN hit
        ELSE CHOOSE S \in SUBSET hit : Cardinality(S) = limit * 3

\* a SearchResult without its relevance, which the model does not compute
SearchResult(r, method) ==
    [id |-> r.id, mem_type |-> r.type, content |-> r.content, tags |-> r.tags,
     created_at |-> r.created_at, method |-> method]

\* what truncate(limit) can leave of results sorted by a relevance the model
\* does not compute: any limit of them, all of them when they are fewer
Truncations(S, limit) == {T \in SUBSET S : Cardinality(T) = Min(limit, Cardinality(S))}

\* a search_hybrid that marks every merged entry "hybrid"
search_hybrid_marks_hybrid(rows, f, query, limit) ==
    Truncations({SearchResult(r, "hybrid") : r \in search_fts(rows, f, query, limit)}, limit)

\* search_hybrid without a query vector: emb_results is empty, every entry
\* of the score map is a result of search_fts with emb_score 0, so that its
\* method stays "fts"; the entries are sorted by the decayed 0.3 * fts_score
\* and truncated to limit.  The result sets the call can return.
search_hybrid(rows, f, query, limit) ==
    Truncations({SearchResult(r, "fts") : r \in search_fts(rows, f, query, limit)}, limit)

(***************************************************************************)
(* storage.rs save_memory                                                  *)
(***************************************************************************)
\* an update that takes the chunks of the record away with the old content
SqlUpdateContent_dropping_chunks(c, id, content, tags) ==
    LET old == CHOOSE r \in mem[c] : r.id = id
        new == [old EXCEPT !.content = content, !.tags = tags, !.updated_at = now]
    IN  << (mem[c] \ {old}) \cup {new}, memories_au(fts[c], old, new),
           {k \in chunks[c] : k.memory_id # id} >>

\* UPDATE memories SET content = ?, tags = ?, updated_at = datetime('now')
\* WHERE id = ?: the new <<memories, memories_fts, memory_chunks>>
SqlUpdateContent(c, id, content, tags) ==
    LET old == CHOOSE r \in mem[c] : r.id = id
        new == [old EXCEPT !.content = content, !.tags = tags, !.updated_at = now]
    IN  << (mem[c] \ {old}) \cup {new}, memories_au(fts[c], old, new), chunks[c] >>

\* the same statement with embedding = NULL added: what hook.rs runs
SqlUpdateContentClear(c, id, content, tags) ==
    LET old == CHOOSE r \in mem[c] : r.id = id
        new == [old EXCEPT !.content = content, !.tags = tags, !.updated_at = now,
                           !.embedding = NULL]
    IN  << (mem[c] \ {old}) \cup {new}, memories_au(fts[c], old, new), chunks[c] >>

\* a new row of memories: created_at takes its default CURRENT_TIMESTAMP and
\* embedding its default NULL
NewRow(rows, id, mem_type, content, tags, updated_at) ==
    [id |-> id, type |-> mem_type, content |-> content, tags |-> tags,
     created_at |-> now, updated_at |-> updated_at, embedding |-> NULL,
     rowid |-> NewRowid(rows)]

\* INSERT OR REPLACE INTO memories (id, type, content, tags, updated_at).
\* The rowid is taken before the conflict is resolved.  REPLACE deletes the
\* row that holds the id: recursive_triggers is off, so memories_ad does not
\* fire for it, while the foreign key of memory_chunks cascades.
SqlInsertOrReplace(c, id, mem_type, content, tags) ==
    LET old == RowsWithId(mem[c], id)
        new == NewRow(mem[c], id, mem_type, content, tags, now)
    IN  << (mem[c] \ old) \cup {new},
           memories_ai(fts[c], new),
           IF old = {} THEN chunks[c] ELSE {k \in chunks[c] : k.memory_id # id} >>

\* a save_memory that consults dedup for every type
save_memory_dedup_always(c, mem_type, content, tags) ==
    LET existing_id == find_duplicate(mem[c], fts[c], content, mem_type, THRESHOLD_PCT)
        mem_id == generate_id(content, mem_type, now)
    IN  IF existing_id # NULL
        THEN [tables |-> SqlUpdateContent(c, existing_id, content, tags),
              id |-> existing_id, dedup |-> "updated"]
        ELSE [tables |-> SqlInsertOrReplace(c, mem_id, mem_type, content, tags),
              id |-> mem_id, dedup |-> "new"]

\* save_memory: the new tables of corpus c and the SaveResult
save_memory(c, mem_type, content, tags) ==
    LET existing_id == IF mem_type # "conversation"
                       THEN find_duplicate(mem[c], fts[c], content, mem_type, THRESHOLD_PCT)
                       ELSE NULL
        mem_id == generate_id(content, mem_type, now)
    IN  IF existing_id # NULL
        THEN [tables |-> SqlUpdateContent(c, existing_id, content, tags),
              id |-> existing_id, dedup |-> "updated"]
        ELSE [tables |-> SqlInsertOrReplace(c, mem_id, mem_type, content, tags),
              id |-> mem_id, dedup |-> "new"]

(***************************************************************************)
(* main.rs: the helpers of the tool handlers                               *)
(***************************************************************************)
\* a resolution that lists the project corpus first
resolve_scope_dbs_project_first(scope) ==
    CASE scope = "global" -> <<"global">>
      [] scope = "project" -> <<"project">>
      [] scope = "personality" -> <<"personality">>
      [] scope = "both" -> <<"project", "global">>
      [] scope = "all" -> <<"project", "global", "personality">>
      [] OTHER -> <<>>

\* storage.rs resolve_scope_dbs: project_db_path() is always Some
resolve_scope_dbs(scope) ==
    CASE scope = "global" -> <<"global">>
      [] scope = "project" -> <<"project">>
      [] scope = "personality" -> <<"personality">>
      [] scope = "both" -> <<"global", "project">>
      [] scope = "all" -> <<"global", "personality", "project">>
      [] OTHER -> <<>>

\* a resolve_save_db that knows one store only
resolve_save_db_one_store(scope) == "personality"

\* main.rs resolve_save_db
resolve_save_db(scope) ==
    CASE scope = "global" -> "global"
      [] scope = "personality" -> "personality"
      [] scope = "project" -> "project"
      [] OTHER -> "personality"

EmbeddingJob(db_path, record_id, content) ==
    [db_path |-> db_path, record_id |-> record_id, content |-> content]

\* whether try_send finds a free slot in the channel
HasRoom(q) == Len(q) < QueueCap

\* queue_embedding that sends the job twice
queue_embedding_twice(q, db_path, record_id, content) ==
    LET job == [db_path |-> db_path, record_id |-> record_id, content |-> content]
    IN  IF HasRoom(q) THEN Append(Append(q, job), job) ELSE q

\* queue_embedding on a channel that takes the job whatever it holds
queue_embedding_unbounded(q, db_path, record_id, content) ==
    Append(q, [db_path |-> db_path, record_id |-> record_id, content |-> content])

\* main.rs queue_embedding: try_send, the result dropped
queue_embedding(q, db_path, record_id, content) ==
    IF HasRoom(q) THEN Append(q, EmbeddingJob(db_path, record_id, content)) ELSE q

\* queue_embedding for a list of <<db_path, row>> in order
RECURSIVE QueueAll(_, _)
QueueAll(q, items) ==
    IF items = <<>> THEN q
    ELSE QueueAll(queue_embedding(q, items[1][1], items[1][2].id, items[1][2].content),
                  Tail(items))

TotalRows == Cardinality(mem["global"]) + Cardinality(mem["personality"])
             + Cardinality(mem["project"])

\* what memory_save reports: the store and the content it saved, the
\* SaveResult, and whether try_send took the job
SaveReturn(db, content, id, dedup, sent) ==
    [db |-> db, content |-> content, id |-> id, dedup |-> dedup, sent |-> sent]

NoSave == SaveReturn("", Empty, NULL, "", FALSE)

\* whether the model lets a table that holds rows take one more
RoomForRow(rows) == TotalRows < MaxRows /\ NewRowid(rows) <= MaxRowid

\* the tags memory_save stores: for scope personality the project name is
\* added unless the tags contain it (no tag of the model contains another)
SaveTags(scope, tags, project_name) ==
    LET name == IF project_name = "" THEN "no-project" ELSE project_name
    IN  IF scope = "personality" /\ name \notin Range(tags)
        THEN Append(tags, name)
        ELSE tags

(***************************************************************************)
(* main.rs: the tool handlers                                              *)
(***************************************************************************)
\* the system clock moves on
Tick ==
    /\ now < MaxClock
    /\ now' = now + 1
    /\ UNCHANGED <<mem, fts, chunks, cache, exists, queue, running, session, ret, handlers, embedder>>

\* a memory_save that does not look at whether the content is empty
Save_without_empty_check(scope, mem_type, content, tags, project_name) ==
    LET db == resolve_save_db(scope)
        res == save_memory(db, mem_type, content, SaveTags(scope, tags, project_name))
    IN  /\ res.dedup = "new" => NewRowid(mem[db]) <= MaxRowid
        /\ (res.dedup = "new" /\ RowsWithId(mem[db], res.id) = {}) => TotalRows < MaxRows
        /\ exists' = exists \cup {db}
        /\ mem' = [mem EXCEPT ![db] = res.tables[1]]
        /\ fts' = [fts EXCEPT ![db] = res.tables[2]]
        /\ chunks' = [chunks EXCEPT ![db] = res.tables[3]]
        /\ queue' = queue_embedding(queue, db, res.id, content)
        /\ ret' = SaveReturn(db, content, res.id, res.dedup, HasRoom(queue))
        /\ UNCHANGED <<cache, running, now, session, handlers, embedder>>

\* memory_save
Save(scope, mem_type, content, tags, project_name) ==
    IF content = Empty
    THEN /\ ret' = NoSave
         /\ UNCHANGED <<mem, fts, chunks, cache, exists, queue, running, now, session, handlers, embedder>>
    ELSE LET db == resolve_save_db(scope)
             res == save_memory(db, mem_type, content, SaveTags(scope, tags, project_name))
         IN  /\ res.dedup = "new" => NewRowid(mem[db]) <= MaxRowid
             /\ (res.dedup = "new" /\ RowsWithId(mem[db], res.id) = {}) => TotalRows < MaxRows
             /\ exists' = exists \cup {db}
             /\ mem' = [mem EXCEPT ![db] = res.tables[1]]
             /\ fts' = [fts EXCEPT ![db] = res.tables[2]]
             /\ chunks' = [chunks EXCEPT ![db] = res.tables[3]]
             /\ queue' = queue_embedding(queue, db, res.id, content)
             /\ ret' = SaveReturn(db, content, res.id, res.dedup, HasRoom(queue))
             /\ UNCHANGED <<cache, running, now, session, handlers, embedder>>

\* memory_delete
Delete(scope, id) ==
    IF id = NULL
    THEN /\ ret' = NoSave
         /\ UNCHANGED <<mem, fts, chunks, cache, exists, queue, running, now, session, handlers, embedder>>
    ELSE LET db == resolve_save_db(scope)
             t == SqlDeleteMemory(db, id)
         IN  /\ exists' = exists \cup {db}
             /\ mem' = [mem EXCEPT ![db] = t[1]]
             /\ fts' = [fts EXCEPT ![db] = t[2]]
             /\ chunks' = [chunks EXCEPT ![db] = t[3]]
             /\ ret' = NoSave
             /\ UNCHANGED <<cache, queue, running, now, session, handlers, embedder>>

\* storage.rs get_unindexed_memories, in rowid order
get_unindexed_memories(rows) == ByRowid({r \in rows : r.embedding = NULL})

\* a fan-out that opens every store of the scope
Visited_without_skip(dbs) == dbs

\* the corpora a fan-out visits: a project store that does not exist is skipped
Visited(dbs) == SelectSeq(dbs, LAMBDA d : ~(d = "project" /\ d \notin exists))

\* the <<db_path, row>> pairs memory_reindex passes to queue_embedding
RECURSIVE ReindexItems(_)
ReindexItems(dbs) ==
    IF dbs = <<>> THEN <<>>
    ELSE LET un == get_unindexed_memories(mem[dbs[1]])
         IN  [i \in 1..Len(un) |-> <<dbs[1], un[i]>>] \o ReindexItems(Tail(dbs))

\* memory_reindex, the text it returns: for each store it visits, the name
\* and count = unindexed.len()
reindex_details(scope) ==
    LET dbs == Visited(resolve_scope_dbs(scope))
    IN  [i \in 1..Len(dbs) |-> <<dbs[i], Len(get_unindexed_memories(mem[dbs[i]]))>>]

\* memory_reindex
Reindex(scope) ==
    LET dbs == Visited(resolve_scope_dbs(scope))
        items == ReindexItems(dbs)
    IN  /\ exists' = exists \cup Range(dbs)
        /\ queue' = QueueAll(queue, items)
        /\ ret' = NoSave
        /\ UNCHANGED <<mem, fts, chunks, cache, running, now, session, handlers, embedder>>

\* a compaction whose rebuild leaves the index as it finds it
compact_db_without_rebuild(rows) == fts["global"]

\* storage.rs compact_db: the FTS5 'rebuild' command, then VACUUM (which keeps
\* the rowids of memories, a table with indexes)
compact_db(rows) == UNION {Postings(r.rowid, r.content, r.tags) : r \in rows}

\* memory_compact
Compact(scope) ==
    LET db == resolve_save_db(scope)
    IN  /\ exists' = exists \cup {db}
        /\ fts' = [fts EXCEPT ![db] = compact_db(mem[db])]
        /\ ret' = NoSave
        /\ UNCHANGED <<mem, chunks, cache, queue, running, now, session, handlers, embedder>>

\* what a fan-out read returns, with the parameters it was called with
ReadReturn(tool, scope, query, limit, results) ==
    [tool |-> tool, scope |-> scope, query |-> query, limit |-> limit, results |-> results]

\* do_search, the loop over the stores: the sets of <<scope_name, result>> it
\* can collect from the corpora dbs
RECURSIVE SearchAll(_, _, _)
SearchAll(dbs, query, limit) ==
    IF dbs = <<>> THEN {{}}
    ELSE {{<<dbs[1], r>> : r \in H} \cup R :
             H \in search_hybrid(mem[dbs[1]], fts[dbs[1]], query, limit),
             R \in SearchAll(Tail(dbs), query, limit)}

\* do_search when no query vector is available (embed(query) is an Err):
\* the results of the stores, sorted by relevance and truncated to limit
do_search(query, scope, limit) ==
    UNION {Truncations(A, limit) :
              A \in SearchAll(Visited(resolve_scope_dbs(scope)), query, limit)}

\* memory_search without a query vector; init_db creates the stores it visits
Search(query, scope, limit) ==
    /\ exists' = exists \cup Range(Visited(resolve_scope_dbs(scope)))
    /\ \E res \in do_search(query, scope, limit) :
          ret' = ReadReturn("search", scope, query, limit, res)
    /\ UNCHANGED <<mem, fts, chunks, cache, queue, running, now, session, handlers, embedder>>

\* storage.rs MemoryRecord
MemoryRecord(r) ==
    [id |-> r.id, mem_type |-> r.type, content |-> r.content, tags |-> r.tags,
     created_at |-> r.created_at]

\* the orders ORDER BY updated_at DESC can return rows in: rows of one
\* updated_at come in any order
OrderedByUpdated(rows) ==
    {s \in [1..Cardinality(rows) -> rows] :
        /\ Range(s) = rows
        /\ \A i, j \in DOMAIN s : i < j => s[i].updated_at >= s[j].updated_at}

\* storage.rs list_memories without a type filter: the sequences it can return
list_memories(rows, limit) ==
    {[i \in 1..Min(limit, Len(s)) |-> MemoryRecord(s[i])] : s \in OrderedByUpdated(rows)}

\* memory_list, the loop over the stores: the sequences of <<scope_name,
\* record>> it can collect from the corpora dbs
RECURSIVE ListAll(_, _)
ListAll(dbs, limit) ==
    IF dbs = <<>> THEN {<<>>}
    ELSE {[i \in 1..Len(l) |-> <<dbs[1], l[i]>>] \o rest :
             l \in list_memories(mem[dbs[1]], limit),
             rest \in ListAll(Tail(dbs), limit)}

\* memory_list
List(scope, limit) ==
    /\ exists' = exists \cup Range(Visited(resolve_scope_dbs(scope)))
    /\ \E res \in ListAll(Visited(resolve_scope_dbs(scope)), limit) :
          ret' = ReadReturn("list", scope, <<>>, limit, res)
    /\ UNCHANGED <<mem, fts, chunks, cache, queue, running, now, session, handlers, embedder>>

(***************************************************************************)
(* embedding.rs: the background worker.  The receive loop spawns one       *)
(* blocking task per job and awaits it; a task runs process_embedding_job, *)
(* one step per Embedder call and per SQL statement (each statement is its *)
(* own transaction).                                                       *)
(***************************************************************************)
Task(j, pc, idx, emb) == [job |-> j, pc |-> pc, idx |-> idx, emb |-> emb]

RemoveAt(s, i) == SubSeq(s, 1, i - 1) \o SubSeq(s, i + 1, Len(s))

\* a loop that does not await the task it spawned
AtRecvNoAwait == TRUE

\* the loop is at rx.recv(): it is not awaiting the task it spawned
AtRecv == running = <<>>

\* the job rx.recv() yields
Received(q) == Head(q)

\* start_background_worker: rx.recv(), then spawn_blocking
WorkerRecv ==
    /\ AtRecv
    /\ queue # <<>>
    /\ running' = Append(running, Task(Received(queue), "embed", 0, NULL))
    /\ queue' = Tail(queue)
    /\ UNCHANGED <<mem, fts, chunks, cache, exists, now, session, ret, handlers, embedder>>

\* get_cached_embedding
get_cached_embedding(rows, text, model) ==
    LET text_hash == compute_text_hash(text, model)
        hit == {e \in rows : e.text_hash = text_hash /\ e.model = model}
    IN  IF hit = {} THEN NULL ELSE bytes_to_f32((CHOOSE e \in hit : TRUE).embedding)

\* store_cached_embedding: INSERT OR REPLACE INTO embedding_cache
store_cached_embedding(rows, text, model, embedding) ==
    LET text_hash == compute_text_hash(text, model)
    IN  {e \in rows : ~(e.text_hash = text_hash /\ e.model = model)}
        \cup {[text_hash |-> text_hash, model |-> model,
               embedding |-> f32_to_bytes(embedding)]}

\* a task whose end stops the loop: the job stays in flight
JobEnds_worker_stops(i) == running' = [running EXCEPT ![i].pc = "stopped"]

\* the task ends, with Ok(()) or with an error that is logged: the job is gone
JobEnds(i) == running' = RemoveAt(running, i)

\* the cache-or-embed step on a text: the Embedder call may fail
CacheOrEmbed(i, text, next_pc) ==
    LET t == running[i]
        db == t.job.db_path
        cached == get_cached_embedding(cache[db], text, MODEL_NAME)
    IN  IF cached # NULL
        THEN /\ running' = [running EXCEPT ![i] = Task(t.job, next_pc, t.idx, cached)]
             /\ UNCHANGED cache
        ELSE \/ /\ cache' = [cache EXCEPT
                        ![db] = store_cached_embedding(cache[db], text, MODEL_NAME, Embed(text))]
                /\ running' = [running EXCEPT ![i] = Task(t.job, next_pc, t.idx, Embed(text))]
             \/ /\ JobEnds(i)
                /\ UNCHANGED cache

\* process_embedding_job: the embedding of the memory's content
WorkerEmbed(i) ==
    /\ running[i].pc = "embed"
    /\ CacheOrEmbed(i, running[i].job.content, "update")
    /\ UNCHANGED <<mem, fts, chunks, exists, queue, now, session, ret, handlers, embedder>>

\* UPDATE memories SET embedding = ? WHERE id = ?: the new <<memories, memories_fts>>
SqlUpdateEmbedding(c, id, blob) ==
    LET old == RowsWithId(mem[c], id)
        o == CHOOSE r \in old : TRUE
        new == [o EXCEPT !.embedding = blob]
    IN  IF old = {} THEN <<mem[c], fts[c]>>
        ELSE << (mem[c] \ old) \cup {new}, memories_au(fts[c], o, new) >>

\* process_embedding_job: the UPDATE, then chunk_text
WorkerUpdate(i) ==
    LET t == running[i]
        db == t.job.db_path
        u == SqlUpdateEmbedding(db, t.job.record_id, f32_to_bytes(t.emb))
    IN  /\ t.pc = "update"
        /\ mem' = [mem EXCEPT ![db] = u[1]]
        /\ fts' = [fts EXCEPT ![db] = u[2]]
        /\ IF Len(chunk_text(t.job.content, CHUNK_SIZE, CHUNK_OVERLAP)) > 1
           THEN running' = [running EXCEPT ![i] = Task(t.job, "delete", 0, NULL)]
           ELSE JobEnds(i)
        /\ UNCHANGED <<chunks, cache, exists, queue, now, session, ret, handlers, embedder>>

\* DELETE FROM memory_chunks WHERE memory_id = ?
WorkerDeleteChunks(i) ==
    LET t == running[i]
        db == t.job.db_path
    IN  /\ t.pc = "delete"
        /\ chunks' = [chunks EXCEPT ![db] = {k \in chunks[db] : k.memory_id # t.job.record_id}]
        /\ running' = [running EXCEPT ![i] = Task(t.job, "chunk_embed", 0, NULL)]
        /\ UNCHANGED <<mem, fts, cache, exists, queue, now, session, ret, handlers, embedder>>

\* the embedding of chunk idx
WorkerChunkEmbed(i) ==
    LET t == running[i]
        cs == chunk_text(t.job.content, CHUNK_SIZE, CHUNK_OVERLAP)
    IN  /\ t.pc = "chunk_embed"
        /\ CacheOrEmbed(i, cs[t.idx + 1], "chunk_insert")
        /\ UNCHANGED <<mem, fts, chunks, exists, queue, now, session, ret, handlers, embedder>>

\* the INSERT OR REPLACE on a connection without foreign_keys=ON: the chunk is
\* stored whether a memory has the id or not
WorkerChunkInsert_no_foreign_key(i) ==
    LET t == running[i]
        db == t.job.db_path
        cs == chunk_text(t.job.content, CHUNK_SIZE, CHUNK_OVERLAP)
        chunk_id == <<t.job.record_id, t.idx>>
        row == [id |-> chunk_id, memory_id |-> t.job.record_id, chunk_index |-> t.idx,
                chunk_text |-> cs[t.idx + 1], embedding |-> f32_to_bytes(t.emb)]
    IN  /\ t.pc = "chunk_insert"
        /\ chunks' = [chunks EXCEPT ![db] = {k \in chunks[db] : k.id # chunk_id} \cup {row}]
        /\ IF t.idx + 1 < Len(cs)
           THEN running' = [running EXCEPT ![i] = Task(t.job, "chunk_embed", t.idx + 1, NULL)]
           ELSE JobEnds(i)
        /\ UNCHANGED <<mem, fts, cache, exists, queue, now, session, ret, handlers, embedder>>

\* INSERT OR REPLACE INTO memory_chunks, with foreign_keys=ON: the statement
\* fails when no memory has the id
WorkerChunkInsert(i) ==
    LET t == running[i]
        db == t.job.db_path
        cs == chunk_text(t.job.content, CHUNK_SIZE, CHUNK_OVERLAP)
        chunk_id == <<t.job.record_id, t.idx>>
        row == [id |-> chunk_id, memory_id |-> t.job.record_id, chunk_index |-> t.idx,
                chunk_text |-> cs[t.idx + 1], embedding |-> f32_to_bytes(t.emb)]
    IN  /\ t.pc = "chunk_insert"
        /\ IF RowsWithId(mem[db], t.job.record_id) = {}
           THEN /\ JobEnds(i)
                /\ UNCHANGED chunks
           ELSE /\ chunks' = [chunks EXCEPT
                        ![db] = {k \in chunks[db] : k.id # chunk_id} \cup {row}]
                /\ IF t.idx + 1 < Len(cs)
                   THEN running' = [running EXCEPT
                                ![i] = Task(t.job, "chunk_embed", t.idx + 1, NULL)]
                   ELSE JobEnds(i)
        /\ UNCHANGED <<mem, fts, cache, exists, queue, now, session, ret, handlers, embedder>>

Worker ==
    \/ WorkerRecv
    \/ \E i \in DOMAIN running :
          \/ WorkerEmbed(i)
          \/ WorkerUpdate(i)
          \/ WorkerDeleteChunks(i)
          \/ WorkerChunkEmbed(i)
          \/ WorkerChunkInsert(i)

(***************************************************************************)
(* hook.rs: the conversation hook, a process of its own that writes the    *)
(* personality corpus.  A turn's timestamp is never read and is left out.  *)
(***************************************************************************)
MAX_TURNS == 20

SessionData(session_id, project, turns, tools, files) ==
    [session_id |-> session_id, project |-> project, turns |-> turns,
     tools |-> tools, files |-> files]

\* SessionData::default()
DefaultSession == SessionData("", "", <<>>, <<>>, <<>>)

Turn(role, content) == [role |-> role, content |-> content]

\* the last MAX_TURNS turns
LimitTurns(turns) ==
    IF Len(turns) > MAX_TURNS
    THEN SubSeq(turns, Len(turns) - MAX_TURNS + 1, Len(turns))
    ELSE turns

\* "({n}" for the turn counts of the model
CountToken(n) == <<"(0", "(1", "(2", "(3">>[n + 1]

\* the topics of build_session_content: the user turns of more than 5
\* characters (every prompt of the model is that long), the first of each
\* kind only
RECURSIVE Topics(_, _)
Topics(turns, seen) ==
    IF turns = <<>> THEN <<>>
    ELSE LET t == turns[1]
             key == [i \in 1..Len(t.content) |-> to_lowercase(t.content[i])]
         IN  IF t.role = "user" /\ t.content # <<>> /\ key \notin seen
             THEN <<t.content>> \o Topics(Tail(turns), seen \cup {key})
             ELSE Topics(Tail(turns), seen)

RECURSIVE TopicLines(_)
TopicLines(topics) ==
    IF topics = <<>> THEN <<>>
    ELSE <<"-">> \o topics[1] \o TopicLines(Tail(topics))

\* build_session_content, as the tokens of the text it returns
build_session_content(s) ==
    LET topics == Topics(s.turns, {})
    IN  << "[" \o s.project \o "]", "Session", CountToken(Len(s.turns)), "turns)" >>
        \o (IF s.tools # <<>> THEN <<"Tools:">> \o Take(s.tools, 20) ELSE <<>>)
        \o (IF s.files # <<>> THEN <<"Files:">> \o Take(s.files, 15) ELSE <<>>)
        \o (IF topics # <<>> THEN <<"Topics:">> \o TopicLines(Take(topics, 10)) ELSE <<>>)

\* handle_user_prompt
HookUserPrompt(session_id, project, prompt) ==
    LET s0 == IF session.session_id # session_id
              THEN SessionData(session_id, project, <<>>, <<>>, <<>>)
              ELSE session
    IN  /\ prompt # Empty
        /\ Len(s0.turns) < MaxHookTurns
        /\ session' = [s0 EXCEPT !.turns = LimitTurns(Append(s0.turns, Turn("user", prompt)))]
        /\ UNCHANGED <<mem, fts, chunks, cache, exists, queue, running, now, ret, handlers, embedder>>

\* a save_to_db that inserts a row at every call
save_to_db_always_inserts(s) ==
    LET mem_id == session_memory_id(s.session_id)
        content == build_session_content(s)
        tags == <<"conversation", "claude-code", s.project, "auto-saved">>
        db == "personality"
        new == NewRow(mem[db], mem_id, "conversation", content, tags, now)
    IN  << mem[db] \cup {new}, memories_ai(fts[db], new), chunks[db] >>

\* save_to_db: UPDATE when the session's memory exists, INSERT otherwise
save_to_db(s) ==
    LET mem_id == session_memory_id(s.session_id)
        content == build_session_content(s)
        tags == <<"conversation", "claude-code", s.project, "auto-saved">>
        db == "personality"
        new == NewRow(mem[db], mem_id, "conversation", content, tags, now)
    IN  IF RowsWithId(mem[db], mem_id) # {}
        THEN SqlUpdateContentClear(db, mem_id, content, tags)
        ELSE << mem[db] \cup {new}, memories_ai(fts[db], new), chunks[db] >>

\* handle_stop, called without tools
HookStop ==
    LET s1 == [session EXCEPT
                  !.turns = LimitTurns(Append(session.turns, Turn("assistant", <<"Responded">>)))]
        t == save_to_db(s1)
    IN  /\ Len(session.turns) < MaxHookTurns
        /\ session' = s1
        /\ IF s1.session_id = ""
           THEN UNCHANGED <<mem, fts, chunks>>
           ELSE /\ \/ RowsWithId(mem["personality"], session_memory_id(s1.session_id)) # {}
                   \/ RoomForRow(mem["personality"])
                /\ mem' = [mem EXCEPT !["personality"] = t[1]]
                /\ fts' = [fts EXCEPT !["personality"] = t[2]]
                /\ chunks' = [chunks EXCEPT !["personality"] = t[3]]
        /\ UNCHANGED <<cache, exists, queue, running, now, ret, handlers, embedder>>

(***************************************************************************)
(* The specification.                                                      *)
(***************************************************************************)
\* the tasks the runtime runs tool handlers on
HandlerIds == {"h1", "h2"}

\* a handler task that runs no tool call
Idle == [pc |-> "idle"]

NoHandlers == [h \in HandlerIds |-> Idle]

\* std::sync::Mutex: no thread holds the lock
Unlocked == ""

Init ==
    /\ mem = [c \in Corpora |-> {}]
    /\ fts = [c \in Corpora |-> {}]
    /\ chunks = [c \in Corpora |-> {}]
    /\ cache = [c \in Corpora |-> {}]
    /\ exists = {"global", "personality"}
    /\ queue = <<>>
    /\ running = <<>>
    /\ now = 0
    /\ session = DefaultSession
    /\ handlers = NoHandlers
    /\ embedder = Unlocked
    /\ ret = NoSave

\* the ids a delete is called with: those in use and one that is not
KnownIds == UNION {{r.id : r \in mem[c]} : c \in Corpora}
DeleteIds == KnownIds \cup {<<"note", K1, MaxClock + 1>>}

\* the worker on texts of one chunk: the chunk steps are never reached
WorkerOneChunk ==
    \/ WorkerRecv
    \/ \E i \in DOMAIN running :
          \/ WorkerEmbed(i)
          \/ WorkerUpdate(i)

(***************************************************************************)
(* Spec: the write path and the worker.  Notes are saved and reindexed in   *)
(* the global corpus while the worker embeds them.                         *)
(***************************************************************************)
Contents == {K1, K2, K3, Empty}

SaveNote(k) == Save("global", "note", k, <<>>, "")

Next ==
    \/ \E k \in Contents : SaveNote(k)
    \/ Reindex("global")
    \/ WorkerOneChunk

Spec == Init /\ [][Next]_vars

(***************************************************************************)
(* SpecStore: the tables and the FTS5 index.  Saves of notes and of         *)
(* conversations, delete and compact on the global corpus, the hook on the *)
(* personality corpus, and the clock.                                      *)
(***************************************************************************)
StoreContents == {K1, K2}

SaveConversation(k) == Save("global", "conversation", k, <<>>, "")
SessionIds == {"s1"}
Prompts == {<<"fix", "login">>}

NextStore ==
    \/ Tick
    \/ \E k \in StoreContents : Save("global", "note", k, <<>>, "")
    \/ SaveConversation(K2)
    \/ \E id \in DeleteIds : Delete("global", id)
    \/ Compact("global")
    \/ \E sid \in SessionIds, p \in Prompts : HookUserPrompt(sid, "proj", p)
    \/ HookStop

SpecStore == Init /\ [][NextStore]_vars

(***************************************************************************)
(* SpecChunks: the worker on a text of more than one chunk.                *)
(***************************************************************************)
NextChunks ==
    \/ Save("global", "note", Long, <<>>, "")
    \/ \E id \in DeleteIds : Delete("global", id)
    \/ Reindex("all")
    \/ Worker

SpecChunks == Init /\ [][NextChunks]_vars

(***************************************************************************)
(* The write path: dedup and the embedding column.                         *)
(***************************************************************************)
\* C1: whenever the corpus holds a record with the (type, content) of a save
\* of a non-conversation type, the save returns the id of such a record with
\* dedup "updated" and the corpus has as many rows after it as before; and
\* the save that has just returned, made once more, returns the same id with
\* dedup "updated" and adds no row.
C1_ExactDuplicateIsUpdated ==
    /\ \A k \in Contents \ {Empty} :
          LET same == {r \in mem["global"] : r.type = "note" /\ r.content = k}
              res == save_memory("global", "note", k, <<>>)
          IN  same # {} =>
                /\ res.dedup = "updated"
                /\ res.id \in {r.id : r \in same}
                /\ Cardinality(res.tables[1]) = Cardinality(mem["global"])
                /\ RowOf(res.tables[1], res.id).content = k
    /\ ret # NoSave =>
          LET again == save_memory(ret.db, "note", ret.content, <<>>)
          IN  /\ again.dedup = "updated"
              /\ again.id = ret.id
              /\ Cardinality(again.tables[1]) = Cardinality(mem[ret.db])

\* a save of K1 has been merged into the record that held K1, next to another record
C1_Witness ==
    /\ ret.dedup = "updated"
    /\ ret.content = K1
    /\ ret.id = generate_id(K1, "note", 0)
    /\ Cardinality(mem["global"]) = 2
    /\ \E r \in mem["global"] : r.id = ret.id /\ r.content = K1

\* C2: a save that is merged into a record that has an embedding leaves that
\* record's embedding NULL, so that reindex enumerates the record.
C2_MergeClearsEmbedding ==
    [][\A k \in Contents :
          (/\ SaveNote(k)
           /\ ret'.dedup = "updated"
           /\ RowOf(mem[ret'.db], ret'.id).embedding # NULL)
          => /\ RowOf(mem'[ret'.db], ret'.id).embedding = NULL
             /\ ret'.id \in {r.id : r \in Range(get_unindexed_memories(mem'[ret'.db]))}]_vars

(***************************************************************************)
(* Delete and the FTS5 index.                                              *)
(***************************************************************************)
\* C3: a delete leaves no memory row and no chunk row with the id and no FTS
\* row at the rowid the deleted row had; a delete of an id no row has leaves
\* the tables as they were.
C3_DeleteLeavesNothing ==
    [][\A id \in DeleteIds :
          Delete("global", id) =>
             LET old == RowsWithId(mem["global"], id)
             IN  /\ RowsWithId(mem'["global"], id) = {}
                 /\ {k \in chunks'["global"] : k.memory_id = id} = {}
                 /\ \A r \in old : {q \in fts'["global"] : q.rowid = r.rowid} = {}
                 /\ old = {} => UNCHANGED <<mem, fts, chunks>>]_vars

\* C4: in every corpus the FTS5 index holds what the rows of memories hold,
\* at the same rowids: the content and the tags of every row and nothing else.
C4_FtsMirrorsMemories ==
    \A c \in Corpora :
        fts[c] = UNION {Postings(r.rowid, r.content, r.tags) : r \in mem[c]}

\* C5: from the return of a save on, whatever becomes of its embed job, the
\* saved record is in the corpus with the saved content, the FTS5 index holds
\* that content at the record's rowid, and a lexical search for any one of
\* its tokens returns the record.
C5_SavedIsSearchable ==
    ret # NoSave =>
        /\ RowsWithId(mem[ret.db], ret.id) # {}
        /\ LET r == RowOf(mem[ret.db], ret.id)
           IN  /\ r.content = ret.content
               /\ Postings(r.rowid, ret.content, r.tags) \subseteq fts[ret.db]
               /\ \A i \in 1..Len(ret.content) :
                     r \in search_fts(mem[ret.db], fts[ret.db], <<ret.content[i]>>, 5)

\* the job of the last save was dropped, the record has no embedding and no
\* job of it is left, and a search for "sqlite" returns it
C5_Witness ==
    /\ ret # NoSave
    /\ ~ret.sent
    /\ ret.content = K2
    /\ RowsWithId(mem[ret.db], ret.id) # {}
    /\ RowOf(mem[ret.db], ret.id).embedding = NULL
    /\ running = <<>>
    /\ \A i \in 1..Len(queue) : queue[i].record_id # ret.id
    /\ ret.id \in {r.id : r \in search_fts(mem[ret.db], fts[ret.db], <<"sqlite">>, 5)}

(***************************************************************************)
(* The job queue and the worker.                                           *)
(***************************************************************************)
\* C6: a save that is rejected (empty content) leaves the queue as it was; a
\* save that succeeds while the queue has room adds at its end exactly one
\* job, that of the store it wrote, of the id it returns and of the content
\* it was given.
C6_SaveEnqueuesOneJob ==
    [][\A k \in Contents :
          SaveNote(k) =>
             IF k = Empty
             THEN queue' = queue /\ ret' = NoSave
             ELSE /\ ret'.dedup \in {"new", "updated"}
                  /\ HasRoom(queue) =>
                        queue' = Append(queue, EmbeddingJob(ret'.db, ret'.id, k))]_vars

\* a merged save has put its job behind the job of an earlier save
C6_Witness ==
    /\ ret.dedup = "updated"
    /\ ret.sent
    /\ Len(queue) = 2
    /\ queue[2] = EmbeddingJob(ret.db, ret.id, ret.content)
    /\ queue[1] # queue[2]

\* C7: the queue never holds more than its capacity; with the queue full a
\* reindex and a save can still be made, they leave the queue as it is, and
\* the save commits its row and returns its normal result.
C7_FullQueueDropsJob ==
    /\ [](Len(queue) <= QueueCap)
    /\ [](~HasRoom(queue) =>
            /\ ENABLED Reindex("global")
            /\ \A r \in mem["global"] : ENABLED SaveNote(r.content))
    /\ [][/\ \A k \in Contents \ {Empty} :
               (SaveNote(k) /\ ~HasRoom(queue)) =>
                  /\ queue' = queue
                  /\ ret'.dedup \in {"new", "updated"}
                  /\ \E r \in mem'[ret'.db] : r.id = ret'.id /\ r.content = k
          /\ (Reindex("global") /\ ~HasRoom(queue)) =>
                queue' = queue /\ mem' = mem]_vars

\* a save has found the queue full and has returned: its row is there, its
\* job is not
C7_Witness ==
    /\ ret.dedup = "new"
    /\ ~ret.sent
    /\ Len(queue) = QueueCap
    /\ \E r \in mem[ret.db] : r.id = ret.id /\ r.content = ret.content
    /\ \A i \in 1..Len(queue) : queue[i].record_id # ret.id

\* C8: when the job of a save was dropped, a reindex that follows it (the
\* worker may have run in between) and that finds room in the queue for all
\* it enumerates and for that memory enqueues a job of that memory with its
\* current content, unless a job of that memory is still queued or in
\* progress or the memory has the embedding of its current content.
C8_ReindexRecoversDroppedJob ==
    [][(/\ Reindex("global")
        /\ ret # NoSave
        /\ ~ret.sent
        /\ RowsWithId(mem[ret.db], ret.id) # {}
        /\ \A i \in 1..Len(queue) : queue[i].record_id # ret.id
        /\ \A i \in 1..Len(running) : running[i].job.record_id # ret.id
        /\ RowOf(mem[ret.db], ret.id).embedding
              # f32_to_bytes(Embed(RowOf(mem[ret.db], ret.id).content))
        /\ Len(queue) + Len(get_unindexed_memories(mem[ret.db])) < QueueCap)
       => \E i \in (Len(queue) + 1)..Len(queue') :
             queue'[i] = EmbeddingJob(ret.db, ret.id, RowOf(mem[ret.db], ret.id).content)]_vars

\* C9: when the Embedder fails, on the text of the memory or on a chunk, the
\* job ends and is not queued again, and the memory of the job, if it is
\* still there, has no embedding, so that reindex enumerates it.
C9_EmbedderFailureIsRecoverable ==
    [][\A i \in DOMAIN running :
          (/\ WorkerEmbed(i) \/ WorkerChunkEmbed(i)
           /\ running' = RemoveAt(running, i))
          => /\ queue' = queue
             /\ \A r \in RowsWithId(mem'[running[i].job.db_path], running[i].job.record_id) :
                   r \in Range(get_unindexed_memories(mem'[running[i].job.db_path]))]_vars

\* C10: at most one job is in progress; a job starts only when none is in
\* progress, and it is the oldest job of the queue; a job enters the queue
\* behind those that wait, and only the oldest leaves it.
C10_OneJobAtATimeInOrder ==
    /\ [](Len(running) <= 1)
    /\ [][/\ Len(running') > Len(running) =>
               /\ running = <<>>
               /\ queue # <<>>
               /\ running' = <<Task(Head(queue), "embed", 0, NULL)>>
          /\ Len(queue') >= Len(queue) => SubSeq(queue', 1, Len(queue)) = queue
          /\ Len(queue') < Len(queue) =>
               /\ queue' = Tail(queue)
               /\ Len(running') > Len(running)]_vars

\* the job of K1 is in progress, past its embedding, while the job of
\* another memory waits
C10_Witness ==
    /\ Len(running) = 1
    /\ running[1].job.content = K1
    /\ running[1].pc = "update"
    /\ Len(queue) = 1
    /\ queue[1].content = K3

(***************************************************************************)
(* SpecRechunk: a record of more than one chunk that a save of a short     *)
(* text merges into.  Wordy has one word more than CHUNK_SIZE; Brief is    *)
(* its one word, so the token sets are equal (Jaccard 1.0) and dedup takes *)
(* Brief for a near-duplicate of Wordy, and Wordy for one of Brief.        *)
(***************************************************************************)
Wordy == [i \in 1..(CHUNK_SIZE + 1) |-> "word"]
Brief == <<"word">>

NextRechunk ==
    \/ Save("global", "note", Wordy, <<>>, "")
    \/ Save("global", "note", Brief, <<>>, "")
    \/ Worker

SpecRechunk == Init /\ [][NextRechunk]_vars

(***************************************************************************)
(* The chunk table.                                                        *)
(***************************************************************************)
\* the <<chunk_index, chunk_text>> pairs of the chunk rows of memory id
ChunkSetOf(rows, id) == {<<k.chunk_index, k.chunk_text>> : k \in {x \in rows : x.memory_id = id}}

\* the chunk set the worker writes for a text: empty for a text of one chunk
CompleteChunkSet(content) ==
    LET cs == chunk_text(content, CHUNK_SIZE, CHUNK_OVERLAP)
    IN  IF Len(cs) > 1 THEN {<<n - 1, cs[n]>> : n \in 1..Len(cs)} ELSE {}

\* C11: when an embed job completes (its last statement has run and its
\* memory is there), the memory has exactly the complete chunk set of the
\* job's content, indices 0..n-1, and no chunk row at all when that content
\* has at most CHUNK_SIZE words.
C11_ChunkSetIsComplete ==
    [][\A i \in DOMAIN running :
          LET db == running[i].job.db_path
              id == running[i].job.record_id
          IN  (/\ WorkerUpdate(i) \/ WorkerChunkInsert(i)
               /\ running' = RemoveAt(running, i)
               /\ RowsWithId(mem'[db], id) # {})
              => ChunkSetOf(chunks'[db], id) = CompleteChunkSet(running[i].job.content)]_vars

\* C12: the embedding of a memory and its chunk set are written as one: in
\* no state does a memory hold the embedding of its content while the
\* chunk rows of that content are missing or only partly there.
C12_EmbeddingAndChunksAreOneWrite ==
    \A c \in Corpora : \A r \in mem[c] :
        r.embedding = f32_to_bytes(Embed(r.content))
        => ChunkSetOf(chunks[c], r.id) = CompleteChunkSet(r.content)

\* C13: in every state, whatever the interleaving of deletes with queued
\* and running embed jobs, the memory_id of each chunk row is the id of a
\* memory row of the same corpus.
C13_ChunksReferToMemories ==
    \A c \in Corpora : \A k \in chunks[c] : RowsWithId(mem[c], k.memory_id) # {}

\* a job is between its first and its second chunk while its memory has
\* been deleted: the chunk row it inserted went with the memory
C13_Witness ==
    /\ Len(running) = 1
    /\ running[1].idx = 1
    /\ running[1].pc = "chunk_insert"
    /\ RowsWithId(mem[running[1].job.db_path], running[1].job.record_id) = {}
    /\ chunks[running[1].job.db_path] = {}

(***************************************************************************)
(* The embedding cache.                                                    *)
(***************************************************************************)
\* C14: what a job stores does not depend on the cache: the embedding a
\* cache-or-embed step yields for a text, from the cache or from the
\* Embedder, is the Embedder's vector of that text, the UPDATE stores its
\* bytes in the memory and each chunk INSERT stores the bytes of the vector
\* of the chunk's text.
C14_CacheIsTransparent ==
    [][\A i \in DOMAIN running :
          LET t == running[i]
              db == t.job.db_path
              id == t.job.record_id
              cs == chunk_text(t.job.content, CHUNK_SIZE, CHUNK_OVERLAP)
          IN  /\ (WorkerEmbed(i) /\ Len(running') = Len(running))
                 => running'[i].emb = Embed(t.job.content)
              /\ (WorkerChunkEmbed(i) /\ Len(running') = Len(running))
                 => running'[i].emb = Embed(cs[t.idx + 1])
              /\ WorkerUpdate(i)
                 => \A r \in RowsWithId(mem'[db], id) :
                       r.embedding = f32_to_bytes(Embed(t.job.content))
              /\ (WorkerChunkInsert(i) /\ RowsWithId(mem[db], id) # {})
                 => \E k \in chunks'[db] :
                       /\ k.id = <<id, t.idx>>
                       /\ k.chunk_text = cs[t.idx + 1]
                       /\ k.embedding = f32_to_bytes(Embed(cs[t.idx + 1]))]_vars

\* a job took the vector of its text from the cache: it is past its
\* cache-or-embed step and before its UPDATE, while the memory already holds
\* the embedding and the chunks an earlier job of the same text wrote, the
\* job that filled the cache
C14_Witness ==
    /\ Len(running) = 1
    /\ running[1].pc = "update"
    /\ running[1].emb = Embed(running[1].job.content)
    /\ \E r \in mem[running[1].job.db_path] :
          /\ r.id = running[1].job.record_id
          /\ r.embedding = f32_to_bytes(Embed(running[1].job.content))
          /\ ChunkSetOf(chunks[running[1].job.db_path], r.id)
             = CompleteChunkSet(running[1].job.content)
    /\ Cardinality(cache[running[1].job.db_path]) = 3

(***************************************************************************)
(* SpecScopes: the scope parameter.  Saves of two texts into the global    *)
(* corpus and of one of them into the project corpus and under a scope     *)
(* that is none of the table; search, list and reindex over every scope;   *)
(* delete and compact under the unknown scope.  The project store does not *)
(* exist until a save creates it.                                          *)
(***************************************************************************)
Scopes == {"global", "personality", "project", "both", "all", "bogus"}
SaveScopes == {"global", "project", "bogus"}
ScopeContents == {K1, K3}
Queries == {<<"sqlite", "go">>}
Limits == {1, 2}

NextScopes ==
    \/ \E k \in ScopeContents : Save("global", "note", k, <<>>, "")
    \/ \E s \in SaveScopes : Save(s, "note", K3, <<>>, "")
    \/ \E s \in Scopes, q \in Queries, l \in Limits : Search(q, s, l)
    \/ \E s \in Scopes, l \in Limits : List(s, l)
    \/ \E s \in Scopes : Reindex(s)
    \/ \E id \in DeleteIds : Delete("bogus", id)
    \/ Compact("bogus")

SpecScopes == Init /\ [][NextScopes]_vars

(***************************************************************************)
(* The scope parameter and the fan-out reads.                              *)
(***************************************************************************)
\* the corpora a call with this scope visits in the state
VisitedBy(scope) == Range(Visited(resolve_scope_dbs(scope)))

\* the results of search_fts in corpus c, as search reports them
FtsResults(c, query, limit) ==
    {<<c, SearchResult(r, "fts")>> : r \in search_fts(mem[c], fts[c], query, limit)}

\* the step is a memory_search: the call is read off what it returned
SearchStep ==
    /\ "tool" \in DOMAIN ret'
    /\ ret'.tool = "search"
    /\ Search(ret'.query, ret'.scope, ret'.limit)

\* the step is a memory_list
ListStep ==
    /\ "tool" \in DOMAIN ret'
    /\ ret'.tool = "list"
    /\ List(ret'.scope, ret'.limit)

WithoutProject(scope) == SelectSeq(resolve_scope_dbs(scope), LAMBDA d : d # "project")

\* C16: while the project store does not exist, a search, list or reindex
\* over any scope can run, does not create the project store, and does what
\* it does over the other corpora of the scope: search and list return
\* their results for those corpora, labelled with their names, and reindex
\* enqueues their memories without embedding.
C16_MissingProjectStoreIsSkipped ==
    /\ []("project" \notin exists
          => \A s \in Scopes : /\ ENABLED Search(<<"sqlite", "go">>, s, 1)
                               /\ ENABLED List(s, 1)
                               /\ ENABLED Reindex(s))
    /\ []["project" \notin exists
          => /\ SearchStep
                => /\ "project" \notin exists'
                   /\ ret'.results \in UNION {Truncations(A, ret'.limit) :
                         A \in SearchAll(WithoutProject(ret'.scope), ret'.query, ret'.limit)}
                   /\ \A x \in ret'.results : x[1] \in Range(WithoutProject(ret'.scope))
             /\ ListStep
                => /\ "project" \notin exists'
                   /\ ret'.results \in ListAll(WithoutProject(ret'.scope), ret'.limit)
             /\ \A s \in Scopes :
                   Reindex(s)
                   => /\ "project" \notin exists'
                      /\ queue' = QueueAll(queue, ReindexItems(WithoutProject(s)))]_vars

\* a search over scope both returned the match of the global corpus,
\* labelled "global", while there is no project store
C16_Witness ==
    /\ "project" \notin exists
    /\ "tool" \in DOMAIN ret
    /\ ret.tool = "search"
    /\ ret.scope = "both"
    /\ Cardinality(ret.results) = 1
    /\ \A x \in ret.results : x[1] = "global"

\* C17: a scope resolves to the ordered list of the table (global; then
\* personality; then project), any other string to the empty list; and a
\* list over a scope returns the records of the table's corpora in the
\* table's order, opening no store outside the table.
C17_ScopeResolution ==
    [][LET table == [s \in Scopes |->
                       CASE s = "global" -> <<"global">>
                         [] s = "personality" -> <<"personality">>
                         [] s = "project" -> <<"project">>
                         [] s = "both" -> <<"global", "project">>
                         [] s = "all" -> <<"global", "personality", "project">>
                         [] OTHER -> <<>>]
           Pos(s, c) == CHOOSE k \in DOMAIN table[s] : table[s][k] = c
       IN  /\ \A s \in Scopes : resolve_scope_dbs(s) = table[s]
           /\ ListStep
              => /\ exists' \subseteq exists \cup Range(table[ret'.scope])
                 /\ \A i \in DOMAIN ret'.results :
                       ret'.results[i][1] \in Range(table[ret'.scope])
                 /\ \A i, j \in DOMAIN ret'.results :
                       i < j => Pos(ret'.scope, ret'.results[i][1])
                                <= Pos(ret'.scope, ret'.results[j][1])]_vars

\* a list over scope both returned a record of the global corpus and then
\* one of the project corpus
C17_Witness ==
    /\ "tool" \in DOMAIN ret
    /\ ret.tool = "list"
    /\ ret.scope = "both"
    /\ Len(ret.results) = 2
    /\ ret.results[1][1] = "global"
    /\ ret.results[2][1] = "project"

\* C18: a call whose scope is none of the table's strings changes no corpus,
\* creates no store and enqueues no job: a save, a delete or a compact, and
\* a search, a list or a reindex.
C18_UnknownScopeChangesNothing ==
    [][(\/ Save("bogus", "note", K3, <<>>, "")
        \/ \E id \in DeleteIds : Delete("bogus", id)
        \/ Compact("bogus")
        \/ \E q \in Queries, l \in Limits : Search(q, "bogus", l)
        \/ \E l \in Limits : List("bogus", l)
        \/ Reindex("bogus"))
       => UNCHANGED <<mem, fts, chunks, cache, exists, queue>>]_vars

(***************************************************************************)
(* SpecConversation: saves of one content as a conversation and as a note  *)
(* in the global corpus, deletes, and the clock.                           *)
(***************************************************************************)
NextConversation ==
    \/ Tick
    \/ SaveConversation(K2)
    \/ Save("global", "note", K2, <<>>, "")
    \/ \E id \in DeleteIds : Delete("global", id)

SpecConversation == Init /\ [][NextConversation]_vars

(***************************************************************************)
(* The content and the id of a save.                                       *)
(***************************************************************************)
\* C19: a save with empty content returns no SaveResult and leaves every
\* corpus, every store and the job queue as they were; and in every state
\* every memory row has a type and a content that is not empty.
C19_EmptyContentIsRejected ==
    /\ [](\A c \in Corpora : \A r \in mem[c] : r.type # "" /\ r.content # Empty)
    /\ [][SaveNote(Empty)
          => /\ ret' = NoSave
             /\ UNCHANGED <<mem, fts, chunks, cache, exists, queue, running>>]_vars

\* a save with empty content has returned (the last call returned no
\* SaveResult) while the corpus holds a memory whose job waits
C19_Witness ==
    /\ ret = NoSave
    /\ ENABLED SaveNote(Empty)
    /\ mem["global"] # {}
    /\ Len(queue) = 1
    /\ running = <<>>

JobsFor(q, c) == SelectSeq(q, LAMBDA j : j.db_path = c)

\* C21: a reindex places on the queue, for each corpus it visits, one job
\* for each memory without embedding and none for the others, and the count
\* it reports for the corpus is the number of jobs that it placed on the
\* queue for that corpus, also when the queue fills up during the call.
C21_ReindexReportsWhatItEnqueued ==
    [][Reindex("global")
       => \A i \in DOMAIN reindex_details("global") :
             LET c == reindex_details("global")[i][1]
                 count == reindex_details("global")[i][2]
                 placed == SubSeq(JobsFor(queue', c), Len(JobsFor(queue, c)) + 1,
                                  Len(JobsFor(queue', c)))
             IN  /\ count = Len(placed)
                 /\ \A r \in mem[c] :
                       Cardinality({k \in DOMAIN placed : placed[k].record_id = r.id})
                       = IF r.embedding = NULL THEN 1 ELSE 0]_vars

(***************************************************************************)
(* SpecCompact: compact between the statements of the worker.  A text of   *)
(* more than one chunk and conversations are saved, the text is deleted,   *)
(* and the global corpus is compacted while the worker embeds and chunks.  *)
(***************************************************************************)
NextCompact ==
    \/ Save("global", "note", Long, <<>>, "")
    \/ SaveConversation(K2)
    \/ Delete("global", generate_id(Long, "note", 0))
    \/ Compact("global")
    \/ Worker

SpecCompact == Init /\ [][NextCompact]_vars

MaxTextLen == 5
MaxChunkSize == 3

\* the text of test_chunking_with_overlap
TenWords == <<"a", "b", "c", "d", "e", "f", "g", "h", "i", "j">>

ChunkTexts == UNION {[1..n -> {"a", "b", Gap}] : n \in 0..MaxTextLen}

\* a call of chunk_text, before (done = FALSE) and after it returns
ChunkCallOf(text, chunk_size, overlap, out, done) ==
    [text |-> text, chunk_size |-> chunk_size, overlap |-> overlap,
     chunks |-> out, done |-> done]

ChunkCalls ==
    {ChunkCallOf(t, s, o, <<>>, FALSE) :
        t \in ChunkTexts, s \in 1..MaxChunkSize, o \in 0..(MaxChunkSize - 1)}
    \cup {ChunkCallOf(TenWords, 4, 2, <<>>, FALSE)}

InitChunking ==
    /\ mem = [c \in Corpora |-> {}]
    /\ fts = [c \in Corpora |-> {}]
    /\ chunks = [c \in Corpora |-> {}]
    /\ cache = [c \in Corpora |-> {}]
    /\ exists = {"global", "personality"}
    /\ queue = <<>>
    /\ running = <<>>
    /\ now = 0
    /\ session = DefaultSession
    /\ handlers = NoHandlers
    /\ embedder = Unlocked
    /\ ret \in {c \in ChunkCalls : c.chunk_size > c.overlap}

\* chunk_text(text, chunk_size, overlap) returns
ChunkCall ==
    /\ "done" \in DOMAIN ret
    /\ ~ret.done
    /\ ret' = ChunkCallOf(ret.text, ret.chunk_size, ret.overlap,
                          chunk_text(ret.text, ret.chunk_size, ret.overlap), TRUE)
    /\ UNCHANGED <<mem, fts, chunks, cache, exists, queue, running, now, session, handlers, embedder>>

\* a text of exactly CHUNK_SIZE words, with whitespace after the last
Padded == [i \in 1..(CHUNK_SIZE + 1) |-> IF i <= CHUNK_SIZE THEN "word" ELSE Gap]

NextChunking ==
    \/ ChunkCall
    \/ Save("global", "note", Wordy, <<>>, "")
    \/ Save("global", "note", Padded, <<>>, "")
    \/ Worker

SpecChunking == InitChunking /\ [][NextChunking]_vars

\* a call of chunk_text has returned
Chunked == "done" \in DOMAIN ret /\ ret.done

\* the last n words of text a are the first n words of text b
Overlap(a, b, n) ==
    LET wa == split_whitespace(a)
        wb == split_whitespace(b)
    IN  /\ Len(wa) >= n
        /\ Len(wb) >= n
        /\ SubSeq(wa, Len(wa) - n + 1, Len(wa)) = SubSeq(wb, 1, n)

\* C23: for chunk_size > overlap >= 0, chunk_text returns at least one chunk,
\* no chunk has more than chunk_size words, and the last overlap words of
\* each chunk but the last two are the first overlap words of the next; the
\* ten words a..j with chunk_size 4 and overlap 2 give the four chunks
\* "a b c d", "c d e f", "e f g h", "g h i j".
C23_ChunksOverlap ==
    Chunked =>
        LET cs == ret.chunks
        IN  /\ Len(cs) >= 1
            /\ \A i \in 1..Len(cs) : Len(split_whitespace(cs[i])) <= ret.chunk_size
            /\ \A i \in 1..(Len(cs) - 2) : Overlap(cs[i], cs[i + 1], ret.overlap)
            /\ (ret.text = TenWords /\ ret.chunk_size = 4 /\ ret.overlap = 2)
               => cs = << <<"a", "b", "c", "d">>, <<"c", "d", "e", "f">>,
                          <<"e", "f", "g", "h">>, <<"g", "h", "i", "j">> >>

\* the call of the unit test has returned its four chunks
C23_Witness ==
    /\ Chunked
    /\ ret.text = TenWords
    /\ Len(ret.chunks) = 4

\* C24: chunk_text returns one chunk that is the text itself exactly when the
\* text has at most chunk_size words (the text of chunk_size words and the
\* empty text included); and the worker inserts a chunk row only in a job
\* whose content has more than CHUNK_SIZE words.
C24_OneChunkIffShort ==
    /\ [](Chunked =>
            ((Len(ret.chunks) = 1 /\ ret.chunks[1] = ret.text)
             <=> Len(split_whitespace(ret.text)) <= ret.chunk_size))
    /\ [][\A i \in DOMAIN running :
            (WorkerChunkInsert(i) /\ chunks' # chunks)
            => Len(split_whitespace(running[i].job.content)) > CHUNK_SIZE]_vars

\* a text of exactly chunk_size words, with whitespace beside them that a
\* join of the words would lose, came back as one chunk
C24_Witness ==
    /\ Chunked
    /\ Len(split_whitespace(ret.text)) = ret.chunk_size
    /\ Gap \in Range(ret.text)
    /\ ret.chunks = <<ret.text>>

(***************************************************************************)
(* SpecJaccard: jaccard_sim on its own.  The initial states hold a call    *)
(* with every pair of texts of at most MaxJaccardLen words and gaps, in    *)
(* two spellings of one word, and the call of test_jaccard_partial;        *)
(* JaccardCall makes the call.                                             *)
(***************************************************************************)
MaxJaccardLen == 3

JaccardTexts == UNION {[1..n -> {"hello", "Hello", "world", Gap}] : n \in 0..MaxJaccardLen}

\* a call of jaccard_sim, before (done = FALSE) and after it returns
JaccardCallOf(text_a, text_b, sim, done) ==
    [text_a |-> text_a, text_b |-> text_b, sim |-> sim, done |-> done]

JaccardCalls ==
    {JaccardCallOf(a, b, <<0, 1>>, FALSE) : a \in JaccardTexts, b \in JaccardTexts}
    \cup {JaccardCallOf(<<"hello", "world", "foo">>, <<"hello", "world", "bar">>, <<0, 1>>, FALSE)}

InitJaccard ==
    /\ mem = [c \in Corpora |-> {}]
    /\ fts = [c \in Corpora |-> {}]
    /\ chunks = [c \in Corpora |-> {}]
    /\ cache = [c \in Corpora |-> {}]
    /\ exists = {"global", "personality"}
    /\ queue = <<>>
    /\ running = <<>>
    /\ now = 0
    /\ session = DefaultSession
    /\ handlers = NoHandlers
    /\ embedder = Unlocked
    /\ ret \in JaccardCalls

\* jaccard_sim(text_a, text_b) returns
JaccardCall ==
    /\ ~ret.done
    /\ ret' = JaccardCallOf(ret.text_a, ret.text_b, jaccard_sim(ret.text_a, ret.text_b), TRUE)
    /\ UNCHANGED <<mem, fts, chunks, cache, exists, queue, running, now, session, handlers, embedder>>

NextJaccard == JaccardCall

SpecJaccard == InitJaccard /\ [][NextJaccard]_vars

\* the lowercased words of a text, read off the text position by position
LowerWords(text) == {to_lowercase(text[i]) : i \in {k \in DOMAIN text : text[k] # Gap}}

\* C25: jaccard_sim(a, b) is |A \cap B| / |A \cup B| over the sets A, B of the
\* lowercased words of a and b, and 0 when one of them is empty; it is the
\* same for (b, a), lies in [0, 1], is 1 when A = B is not empty, whatever the
\* order, repetition and case of the words, and 0 when A and B are disjoint;
\* jaccard_sim("hello world foo", "hello world bar") is 1/2.
C25_JaccardOfTokenSets ==
    ret.done =>
        LET A == LowerWords(ret.text_a)
            B == LowerWords(ret.text_b)
            i == ret.sim[1]
            u == ret.sim[2]
        IN  /\ u >= 1 /\ 0 <= i /\ i <= u
            /\ IF A = {} \/ B = {}
               THEN i = 0
               ELSE i * Cardinality(A \cup B) = Cardinality(A \cap B) * u
            /\ ret.sim = jaccard_sim(ret.text_b, ret.text_a)
            /\ (A = B /\ A # {}) => i = u
            /\ A \cap B = {} => i = 0
            /\ (ret.text_a = <<"hello", "world", "foo">> /\ ret.text_b = <<"hello", "world", "bar">>)
               => 2 * i = u

\* two texts of the same words in another order, another case and with a
\* repetition came back with similarity 1
C25_Witness ==
    /\ ret.done
    /\ ret.text_a = <<"Hello", "world", "hello">>
    /\ ret.text_b = <<"world", Gap, "hello">>
    /\ ret.sim[1] = ret.sim[2]

(***************************************************************************)
(* search.rs: temporal decay.  Time is counted in half days, so that the   *)
(* whole days of an age are a truncation.  A score times a factor given in *)
(* thousandths is a score in units a thousand times finer.                 *)
(***************************************************************************)
\* a created_at text: "naive" is "%Y-%m-%d %H:%M:%S", read as UTC; "rfc3339"
\* is local time t with its UTC offset; any other form does not parse
Timestamp(form, t, offset) == [form |-> form, t |-> t, offset |-> offset]

\* chrono TimeDelta::num_days: the whole days of h half days, toward zero
num_days(h) == IF h >= 0 THEN h \div 2 ELSE -((-h) \div 2)

\* search.rs parse_days_old
parse_days_old(created_at) ==
    CASE created_at.form = "naive" ->
            LET d == num_days(now - created_at.t) IN IF d >= 0 THEN d ELSE 0
      [] created_at.form = "rfc3339" ->
            LET d == num_days(now - (created_at.t - created_at.offset)) IN IF d >= 0 THEN d ELSE 0
      [] OTHER -> 0

\* f64::ln_1p in ten-thousandths, on the ages of the model
ln_1p(d) ==
    CASE d = 0 -> 0
      [] d = 1 -> 6931
      [] d = 2 -> 10986
      [] d = 3 -> 13862
      [] d = 4 -> 16094
      [] d = 5 -> 17917
      [] d = 6 -> 19459
      [] d = 7 -> 20794
      [] d = 8 -> 21972
      [] d = 999 -> 69077
      [] d = 1000 -> 69087
      [] d = 1001 -> 69097

DECAY_STRENGTH == 150

\* recency = 1.0 / (1.0 + ln_1p(days_old)), in ten-thousandths
recency(days_old) == 100000000 \div (10000 + ln_1p(days_old))

\* a decay by the recency alone, without the 1.0 - DECAY_STRENGTH it is added to
apply_temporal_decay_to_zero(score, created_at) ==
    score * (recency(parse_days_old(created_at)) \div 10)

\* search.rs apply_temporal_decay: score * (1.0 - DECAY_STRENGTH +
\* DECAY_STRENGTH * recency), the factor in thousandths
apply_temporal_decay(score, created_at) ==
    score * ((1000 - DECAY_STRENGTH) + (DECAY_STRENGTH * recency(parse_days_old(created_at))) \div 10000)

(***************************************************************************)
(* SpecDecay: apply_temporal_decay on its own.  The clock reads DecayNow;  *)
(* the initial states hold a call with every score of DecayScores and      *)
(* every created_at text: of either form, up to MaxAge half days old or up *)
(* to MaxAhead half days ahead, a thousand days old, or unparsable.        *)
(***************************************************************************)
MaxAge == 7
MaxAhead == 3

DecayNow == 2004

\* scores in hundredths
DecayScores == {0, 1, 41, 100, 250}

DecayMoments == (DecayNow - MaxAge)..(DecayNow + MaxAhead) \cup {DecayNow - 2000}

DecayTexts ==
    {Timestamp("naive", t, 0) : t \in DecayMoments}
    \cup {Timestamp("rfc3339", t + o, o) : t \in DecayMoments, o \in {-1, 0, 1}}
    \cup {Timestamp("other", 0, 0)}

\* a call of apply_temporal_decay, before (done = FALSE) and after it returns
DecayCallOf(score, created_at, decayed, done) ==
    [score |-> score, created_at |-> created_at, decayed |-> decayed, done |-> done]

InitDecay ==
    /\ mem = [c \in Corpora |-> {}]
    /\ fts = [c \in Corpora |-> {}]
    /\ chunks = [c \in Corpora |-> {}]
    /\ cache = [c \in Corpora |-> {}]
    /\ exists = {"global", "personality"}
    /\ queue = <<>>
    /\ running = <<>>
    /\ now = DecayNow
    /\ session = DefaultSession
    /\ handlers = NoHandlers
    /\ embedder = Unlocked
    /\ ret \in {DecayCallOf(r, c, 0, FALSE) : r \in DecayScores, c \in DecayTexts}

\* apply_temporal_decay(score, created_at) returns
DecayCall ==
    /\ ~ret.done
    /\ ret' = DecayCallOf(ret.score, ret.created_at,
                          apply_temporal_decay(ret.score, ret.created_at), TRUE)
    /\ UNCHANGED <<mem, fts, chunks, cache, exists, queue, running, now, session, handlers, embedder>>

NextDecay == DecayCall

SpecDecay == InitDecay /\ [][NextDecay]_vars

\* the moment a created_at text names, in UTC, of a text that parses
MomentOf(created_at) == created_at.t - created_at.offset

\* C26: for a score r >= 0 and a created_at text of either form, in the past,
\* in the future or unparsable, 0.85 * r <= apply_temporal_decay(r, created_at)
\* <= r; and the result is r itself when the text is less than a day old, in
\* the future or unparsable.
C26_DecayBounds ==
    ret.done =>
        /\ 850 * ret.score <= ret.decayed
        /\ ret.decayed <= 1000 * ret.score
        /\ (\/ ret.created_at.form = "other"
            \/ MomentOf(ret.created_at) > DecayNow - 2)
           => ret.decayed = 1000 * ret.score

\* a score of 1.0 on a record a thousand days old came back between 0.85 and
\* 0.90, as in test_temporal_decay_old
C26_Witness ==
    /\ ret.done
    /\ ret.score = 100
    /\ MomentOf(ret.created_at) = DecayNow - 2000
    /\ ret.decayed > 85000
    /\ ret.decayed < 90000

(***************************************************************************)
(* search.rs with a query vector.  Cosines and normalized BM25 scores are  *)
(* in hundredths, a decayed score in units of 1e-5, raw in units of 1e-6,  *)
(* the decayed raw in units of 1e-9 and a relevance, rounded, in units of  *)
(* 1e-4.                                                                   *)
(***************************************************************************)
MIN_SIM == 30
VECTOR_WEIGHT == 7
TEXT_WEIGHT == 3

\* The texts of the ranking example: Near is close to the query in meaning
\* and holds its word once among others; Far holds the word of the query and
\* nothing else.
RankQuery == <<"sqlite">>
Near == <<"sqlite", "storage", "notes">>
Far == <<"sqlite", "sqlite">>

\* search.rs cosine_similarity on the vectors of the Embedder, which the model
\* reads off a table: the cosines of the vector of RankQuery with the vectors
\* of the texts and of the chunks of Long
cosine_similarity(a, b) ==
    CASE a = b -> 100
      [] b = Embed(Near) -> 90
      [] b = Embed(Far) -> 20
      [] b = Embed(Long) -> 40
      [] b = Embed(chunk_text(Long, CHUNK_SIZE, CHUNK_OVERLAP)[1]) -> 60
      [] OTHER -> 0

\* bm25(memories_fts) of a row that matches the query, its absolute value in
\* hundredths: the score of FTS5, which the model reads off a table
bm25(r, tokens) ==
    CASE r.content = Near -> 25
      [] r.content = Far -> 900
      [] OTHER -> 100

\* bm25_raw / (bm25_raw + 1.0), in hundredths
bm25_normalized(bm25_raw) == (100 * bm25_raw) \div (bm25_raw + 100)

\* the created_at text of a row: CURRENT_TIMESTAMP writes "%Y-%m-%d %H:%M:%S"
CreatedAt(t) == Timestamp("naive", t, 0)

\* search.rs SearchResult
ScoredResult(r, method, relevance) ==
    [id |-> r.id, mem_type |-> r.type, content |-> r.content, tags |-> r.tags,
     created_at |-> r.created_at, method |-> method, relevance |-> relevance]

\* the orders a sort by relevance, descending, can leave the results S in
SortedByRelevance(S) ==
    {s \in [1..Cardinality(S) -> S] :
        /\ Range(s) = S
        /\ \A i, j \in DOMAIN s : i < j => s[i].relevance >= s[j].relevance}

\* search_fts with the relevance of each row: the decayed normalized bm25
fts_results(rows, f, query, limit) ==
    {ScoredResult(r, "fts",
                  apply_temporal_decay(bm25_normalized(bm25(r, split_whitespace(query))),
                                       CreatedAt(r.created_at))) :
        r \in search_fts(rows, f, query, limit)}

\* search_embedding, the first loop: the decayed cosine of each memory whose
\* own vector is above MIN_SIM, as <<id, score>>
MemoryScores(rows, query_embedding) ==
    {<<r.id, apply_temporal_decay(cosine_similarity(query_embedding, bytes_to_f32(r.embedding)),
                                  CreatedAt(r.created_at))>> :
        r \in {x \in rows : /\ x.embedding # NULL
                            /\ cosine_similarity(query_embedding, bytes_to_f32(x.embedding)) > MIN_SIM}}

\* search_embedding, the second loop: memory_chunks c JOIN memories m and the
\* decayed cosine of each chunk above MIN_SIM, as <<memory_id, score>>
ChunkScores(rows, crows, query_embedding) ==
    {<<k.memory_id, apply_temporal_decay(cosine_similarity(query_embedding, bytes_to_f32(k.embedding)),
                                         CreatedAt(RowOf(rows, k.memory_id).created_at))>> :
        k \in {x \in crows : /\ RowsWithId(rows, x.memory_id) # {}
                             /\ cosine_similarity(query_embedding, bytes_to_f32(x.embedding)) > MIN_SIM}}

\* search_embedding, results_map: an entry is made by the first score of its
\* id and keeps the method it was made with; a later score that is higher
\* replaces its relevance only
results_map(rows, crows, query_embedding) ==
    LET ms == MemoryScores(rows, query_embedding)
        cs == ChunkScores(rows, crows, query_embedding)
    IN  {ScoredResult(RowOf(rows, id),
                      IF \E p \in ms : p[1] = id THEN "embedding" ELSE "embedding-chunk",
                      Max({p[2] : p \in {q \in ms \cup cs : q[1] = id}})) :
            id \in {p[1] : p \in ms \cup cs}}

\* search_embedding: the sequences it can return
search_embedding(rows, crows, query_embedding, limit) ==
    {Take(s, limit) : s \in SortedByRelevance(results_map(rows, crows, query_embedding))}

\* the greatest relevance the results S hold for id, 0.0 when they hold none
ScoreOf(S, id) == Max({0} \cup {r.relevance : r \in {x \in S : x.id = id}})

\* search_hybrid, the score map and the merge for one outcome emb_results of
\* search_embedding: the data of an id are those of its embedding result when
\* it has one; relevance is the decayed raw, rounded to four decimals
merged(fts_res, emb_results) ==
    LET emb_res == Range(emb_results)
    IN  {LET fts_score == ScoreOf(fts_res, id)
             emb_score == ScoreOf(emb_res, id)
             data == IF \E r \in emb_res : r.id = id
                     THEN CHOOSE r \in emb_res : r.id = id
                     ELSE CHOOSE r \in fts_res : r.id = id
             raw == VECTOR_WEIGHT * emb_score + TEXT_WEIGHT * fts_score
             final_score == apply_temporal_decay(raw, CreatedAt(data.created_at))
         IN  [data EXCEPT !.relevance = (final_score + 50000) \div 100000,
                          !.method = IF emb_score > 0 /\ fts_score > 0
                                     THEN "hybrid" ELSE data.method] :
            id \in {r.id : r \in fts_res \cup emb_res}}

\* search_hybrid with a query vector: the sequences it can return
search_hybrid_with_vector(rows, f, crows, query, query_embedding, limit) ==
    UNION {{Take(s, limit) :
               s \in SortedByRelevance(merged(fts_results(rows, f, query, limit), e))} :
           e \in search_embedding(rows, crows, query_embedding, limit)}

\* Vec::sort_by, a stable sort, by relevance descending, of <<scope_name,
\* result>> pairs: x goes behind the pairs of s that are not below it
RECURSIVE InsertByRelevance(_, _)
InsertByRelevance(x, s) ==
    IF s = <<>> THEN <<x>>
    ELSE IF s[1][2].relevance >= x[2].relevance
         THEN <<s[1]>> \o InsertByRelevance(x, Tail(s))
         ELSE <<x>> \o s

RECURSIVE SortByRelevance(_)
SortByRelevance(s) ==
    IF s = <<>> THEN <<>>
    ELSE InsertByRelevance(s[Len(s)], SortByRelevance(SubSeq(s, 1, Len(s) - 1)))

\* do_search, the loop over the stores with a query vector: the sequences
\* all_results of <<scope_name, result>> it can collect from the corpora dbs
RECURSIVE SearchAllWithVector(_, _, _)
SearchAllWithVector(dbs, query, limit) ==
    IF dbs = <<>> THEN {<<>>}
    ELSE {[i \in 1..Len(h) |-> <<dbs[1], h[i]>>] \o rest :
             h \in search_hybrid_with_vector(mem[dbs[1]], fts[dbs[1]], chunks[dbs[1]],
                                             query, Embed(query), limit),
             rest \in SearchAllWithVector(Tail(dbs), query, limit)}

\* a do_search that truncates all_results as the loop collected them
do_search_with_vector_unsorted(query, scope, limit) ==
    {Take(a, limit) :
        a \in SearchAllWithVector(Visited(resolve_scope_dbs(scope)), query, limit)}

\* do_search when embed(query) is Ok: all_results sorted by relevance and
\* truncated to limit
do_search_with_vector(query, scope, limit) ==
    {Take(SortByRelevance(a), limit) :
        a \in SearchAllWithVector(Visited(resolve_scope_dbs(scope)), query, limit)}

\* memory_search with a query vector; init_db creates the stores it visits
SearchWithVector(query, scope, limit) ==
    /\ exists' = exists \cup Range(Visited(resolve_scope_dbs(scope)))
    /\ \E res \in do_search_with_vector(query, scope, limit) :
          ret' = ReadReturn("search", scope, query, limit, res)
    /\ UNCHANGED <<mem, fts, chunks, cache, queue, running, now, session, handlers, embedder>>

\* a thousand days pass
ThousandDays ==
    /\ now = 0
    /\ now' = 2000
    /\ UNCHANGED <<mem, fts, chunks, cache, exists, queue, running, session, ret, handlers, embedder>>

(***************************************************************************)
(* SpecRank: the ranker with a query vector.  Far is saved in the global   *)
(* corpus and Near in the project corpus, the worker embeds them, a        *)
(* thousand days pass, and searches for RankQuery run with a query vector. *)
(***************************************************************************)
RankScopes == {"global", "all"}
RankLimits == {1, 2}

NextRank ==
    \/ Save("global", "note", Far, <<>>, "")
    \/ Save("project", "note", Near, <<>>, "")
    \/ WorkerOneChunk
    \/ ThousandDays
    \/ \E scope \in RankScopes, limit \in RankLimits : SearchWithVector(RankQuery, scope, limit)

SpecRank == Init /\ [][NextRank]_vars

(***************************************************************************)
(* The ranker.                                                             *)
(***************************************************************************)
\* the step is a memory_search with a query vector
RankStep ==
    /\ "tool" \in DOMAIN ret'
    /\ ret'.tool = "search"
    /\ SearchWithVector(ret'.query, ret'.scope, ret'.limit)

\* 0.7 * cosine + 0.3 * normalized bm25 of row r for the query, decayed once by
\* the age of r and rounded to four decimals, in units of 1e-4
DecayedOnce(r, query) ==
    LET cosine == cosine_similarity(Embed(query), bytes_to_f32(r.embedding))
        raw == VECTOR_WEIGHT * cosine
               + TEXT_WEIGHT * bm25_normalized(bm25(r, split_whitespace(query)))
    IN  (apply_temporal_decay(raw, CreatedAt(r.created_at)) + 50) \div 100

\* C27: a search with a query vector gives a memory that matches the query
\* lexically and has a stored embedding the relevance 0.7 * cosine + 0.3 *
\* normalized bm25, decayed once by the age of the memory; a memory of cosine
\* 0.2 and normalized bm25 0.9 has raw 0.41.
C27_HybridDecaysOnce ==
    [][RankStep
       => \A i \in DOMAIN ret'.results :
             LET c == ret'.results[i][1]
                 res == ret'.results[i][2]
                 r == RowOf(mem[c], res.id)
             IN  (/\ r.embedding # NULL
                  /\ r \in FtsJoin(mem[c], fts[c], split_whitespace(ret'.query)))
                 => res.relevance = DecayedOnce(r, ret'.query)]_vars

(***************************************************************************)
(* SpecHook: the conversation hook with two sessions that take turns, a    *)
(* reindex of the personality corpus and the worker, which embeds the      *)
(* session memories.                                                       *)
(***************************************************************************)
HookSessions == {"s1", "s2"}

NextHook ==
    \/ \E sid \in HookSessions, p \in Prompts : HookUserPrompt(sid, "proj", p)
    \/ HookStop
    \/ Reindex("personality")
    \/ WorkerOneChunk

SpecHook == Init /\ [][NextHook]_vars

\* the memories of the personality corpus stored under the id of session sid
SessionRows(rows, sid) == RowsWithId(rows, session_memory_id(sid))

\* C28: after any sequence of UserPromptSubmit and Stop events the personality
\* corpus holds at most one memory for each session id, under the id
\* session_memory_id(session_id) and with type conversation, and no other
\* memory; a Stop of a session that has its memory leaves the number of rows
\* as it is and the row with the content and the tags of the session as it
\* is now and without embedding.
C28_OneMemoryPerSession ==
    /\ [](/\ \A sid \in HookSessions :
                /\ Cardinality(SessionRows(mem["personality"], sid)) <= 1
                /\ \A r \in SessionRows(mem["personality"], sid) : r.type = "conversation"
          /\ \A r \in mem["personality"] : \E sid \in HookSessions : r.id = session_memory_id(sid))
    /\ [][(HookStop /\ session.session_id # "")
          => LET sid == session.session_id
                 old == SessionRows(mem["personality"], sid)
                 new == SessionRows(mem'["personality"], sid)
             IN  /\ Cardinality(new) = 1
                 /\ \A r \in new :
                       /\ r.content = build_session_content(session')
                       /\ r.tags = <<"conversation", "claude-code", session'.project, "auto-saved">>
                       /\ r.embedding = NULL
                 /\ old # {} =>
                       /\ Cardinality(mem'["personality"]) = Cardinality(mem["personality"])
                       /\ {r.rowid : r \in new} = {r.rowid : r \in old}]_vars

\* the memory of session s1, the only one there has been, was embedded by
\* the worker (the cache holds its text and no job is left) and then updated
\* by a second Stop of the session, which cleared the embedding
C28_Witness ==
    LET rows == SessionRows(mem["personality"], "s1")
    IN  /\ session.session_id = "s1"
        /\ rows # {}
        /\ \A r \in rows :
              /\ r.embedding = NULL
              /\ r.content = build_session_content(session)
              /\ \E e \in cache["personality"] :
                    e.text_hash = compute_text_hash(r.content, MODEL_NAME)
        /\ Cardinality(mem["personality"]) = 1
        /\ cache["personality"] # {}
        /\ queue = <<>>
        /\ running = <<>>

(***************************************************************************)
(* SpecSemantic: semantic search over a memory with chunks.  Long and Near *)
(* are saved in the global corpus, the worker embeds them and chunks Long, *)
(* and searches for RankQuery run with a query vector.                     *)
(***************************************************************************)
NextSemantic ==
    \/ \E k \in {Long, Near} : Save("global", "note", k, <<>>, "")
    \/ Worker
    \/ \E limit \in RankLimits : SearchWithVector(RankQuery, "global", limit)

SpecSemantic == Init /\ [][NextSemantic]_vars

\* the scores of id among the <<id, score>> pairs P
ScoresOf(P, id) == {p[2] : p \in {q \in P : q[1] = id}}

\* C29: the results of search_embedding hold each memory id at most once, with
\* the greatest decayed score of its own vector and its chunks above MIN_SIM
\* for relevance; the method is "embedding-chunk" when a chunk has that
\* greatest score, also when the memory's own vector is above MIN_SIM with a
\* lower score, and "embedding" when the memory's own vector has it.
C29_SemanticMethod ==
    [][RankStep
       => \A c \in Range(Visited(resolve_scope_dbs(ret'.scope))) :
            \A e \in search_embedding(mem[c], chunks[c], Embed(ret'.query), ret'.limit) :
               /\ \A i, j \in DOMAIN e : e[i].id = e[j].id => i = j
               /\ \A i \in DOMAIN e :
                     LET ms == ScoresOf(MemoryScores(mem[c], Embed(ret'.query)), e[i].id)
                         cs == ScoresOf(ChunkScores(mem[c], chunks[c], Embed(ret'.query)), e[i].id)
                     IN  /\ e[i].relevance = Max(ms \cup cs)
                         /\ (cs # {} /\ (ms = {} \/ Max(cs) > Max(ms)))
                            => e[i].method = "embedding-chunk"
                         /\ (ms # {} /\ (cs = {} \/ Max(ms) > Max(cs)))
                            => e[i].method = "embedding"]_vars

\* the hybrid results of the corpora dbs for a query, each with the name of
\* its corpus: the merged entries of search_hybrid in every corpus, for each
\* outcome of search_embedding
RECURSIVE HybridResults(_, _, _)
HybridResults(dbs, query, limit) ==
    IF dbs = <<>> THEN {{}}
    ELSE {{<<dbs[1], r>> : r \in merged(fts_results(mem[dbs[1]], fts[dbs[1]], query, limit), e)}
          \cup rest :
             e \in search_embedding(mem[dbs[1]], chunks[dbs[1]], Embed(query), limit),
             rest \in HybridResults(Tail(dbs), query, limit)}

\* C30: a search over several corpora returns at most limit results, sorted by
\* relevance descending, each with the name of the corpus it came from, and
\* they are the limit best of the hybrid results of all the corpora it
\* visits: as many as there are, up to limit, and no hybrid result that is
\* left out has a higher relevance than one that is returned.
C30_BestOfAllCorpora ==
    [][RankStep
       => LET res == ret'.results
              dbs == Visited(resolve_scope_dbs(ret'.scope))
          IN  /\ Len(res) <= ret'.limit
              /\ \A i, j \in DOMAIN res : i < j => res[i][2].relevance >= res[j][2].relevance
              /\ \E A \in HybridResults(dbs, ret'.query, ret'.limit) :
                    /\ Range(res) \subseteq A
                    /\ Cardinality(Range(res)) = Len(res)
                    /\ Len(res) = Min(ret'.limit, Cardinality(A))
                    /\ \A x \in A \ Range(res) :
                          \A i \in DOMAIN res : x[2].relevance <= res[i][2].relevance]_vars

\* a search of all corpora for one result returned the memory of the project
\* corpus, a thousand days old, and left out the memory of the global
\* corpus, which is visited first and has the lower relevance
C30_Witness ==
    /\ "tool" \in DOMAIN ret
    /\ ret.scope = "all"
    /\ ret.limit = 1
    /\ Len(ret.results) = 1
    /\ ret.results[1][1] = "project"
    /\ ret.results[1][2].method = "hybrid"
    /\ now = 2000
    /\ \E r \in mem["global"] : r.content = Far /\ r.embedding # NULL
    /\ \E r \in mem["project"] : r.content = Near /\ r.created_at = 0

(***************************************************************************)
(* The Embedder's lock.  EmbeddingEngine::embed takes the lock of          *)
(* EmbeddingEngine.model, runs TextEmbedding::embed under it and drops the *)
(* guard when it returns.  The callers are do_search, on the task of a     *)
(* tool handler, and process_embedding_job, on the worker's blocking task. *)
(* Here a call is three steps: the caller reaches lock(), it is given the  *)
(* lock, the model returns.                                                *)
(***************************************************************************)
\* std::sync::Mutex: a thread panicked while it held the lock
Poisoned == "poisoned"

\* a lock() that does not look at whether the lock is held
LockFree_unguarded == TRUE

\* std::sync::Mutex::lock returns the guard: no thread holds the lock
LockFree == embedder = Unlocked

\* a tool handler inside do_search
SearchTask(pc, query, scope, limit, query_emb) ==
    [pc |-> pc, query |-> query, scope |-> scope, limit |-> limit, query_emb |-> query_emb]

\* memory_search is called: do_search resolves the scope and calls embed(query),
\* which calls lock()
SearchCall(h, query, scope, limit) ==
    /\ handlers[h] = Idle
    /\ handlers' = [handlers EXCEPT ![h] = SearchTask("lock", query, scope, limit, NULL)]
    /\ UNCHANGED <<mem, fts, chunks, cache, exists, queue, running, now, session, ret, embedder>>

\* lock() returns the guard to the handler
SearchLock(h) ==
    /\ handlers[h].pc = "lock"
    /\ LockFree
    /\ embedder' = h
    /\ handlers' = [handlers EXCEPT ![h].pc = "model"]
    /\ UNCHANGED <<mem, fts, chunks, cache, exists, queue, running, now, session, ret>>

\* lock() returns a PoisonError: embed is an Err, query_emb is None
SearchLockErr(h) ==
    /\ handlers[h].pc = "lock"
    /\ embedder = Poisoned
    /\ handlers' = [handlers EXCEPT ![h].pc = "stores"]
    /\ UNCHANGED <<mem, fts, chunks, cache, exists, queue, running, now, session, ret, embedder>>

\* TextEmbedding::embed ends under the handler's guard: with the vector, with
\* an Err, or with a panic that ends the handler's task and poisons the lock
SearchEmbedded(h) ==
    /\ handlers[h].pc = "model"
    /\ embedder = h
    /\ \/ /\ handlers' = [handlers EXCEPT ![h].pc = "stores",
                                          ![h].query_emb = Embed(handlers[h].query)]
          /\ embedder' = Unlocked
       \/ /\ handlers' = [handlers EXCEPT ![h].pc = "stores"]
          /\ embedder' = Unlocked
       \/ /\ handlers' = [handlers EXCEPT ![h] = Idle]
          /\ embedder' = Poisoned
    /\ UNCHANGED <<mem, fts, chunks, cache, exists, queue, running, now, session, ret>>

\* the sequences a sort by a relevance the model does not compute can leave
\* the results S in
InAnyOrder(S) == {s \in [1..Cardinality(S) -> S] : Range(s) = S}

\* do_search, the loop over the stores, the sort and the truncation; the
\* handler returns
SearchStores(h) ==
    LET t == handlers[h]
    IN  /\ t.pc = "stores"
        /\ exists' = exists \cup Range(Visited(resolve_scope_dbs(t.scope)))
        /\ \E res \in (IF t.query_emb = NULL
                       THEN UNION {InAnyOrder(S) : S \in do_search(t.query, t.scope, t.limit)}
                       ELSE do_search_with_vector(t.query, t.scope, t.limit)) :
              ret' = ReadReturn("search", t.scope, t.query, t.limit, res)
        /\ handlers' = [handlers EXCEPT ![h] = Idle]
        /\ UNCHANGED <<mem, fts, chunks, cache, queue, running, now, session, embedder>>

\* the positions of process_embedding_job around its two calls of embed: the
\* cache lookup, lock(), TextEmbedding::embed, and the statement that follows
LockPc(pc) == IF pc = "embed" THEN "lock" ELSE "chunk_lock"
ModelPc(pc) == IF pc = "lock" THEN "model" ELSE "chunk_model"
AfterPc(pc) == IF pc \in {"embed", "model"} THEN "update" ELSE "chunk_insert"

\* the text the task's call of embed is for
TaskText(t) ==
    IF t.pc \in {"embed", "lock", "model"} THEN t.job.content
    ELSE chunk_text(t.job.content, CHUNK_SIZE, CHUNK_OVERLAP)[t.idx + 1]

\* get_cached_embedding: a hit is the embedding; a miss calls embed, which
\* calls lock()
WorkerLookup(i) ==
    LET t == running[i]
        cached == get_cached_embedding(cache[t.job.db_path], TaskText(t), MODEL_NAME)
    IN  /\ t.pc \in {"embed", "chunk_embed"}
        /\ IF cached # NULL
           THEN running' = [running EXCEPT ![i] = Task(t.job, AfterPc(t.pc), t.idx, cached)]
           ELSE running' = [running EXCEPT ![i].pc = LockPc(t.pc)]
        /\ UNCHANGED <<mem, fts, chunks, cache, exists, queue, now, session, ret,
                       handlers, embedder>>

\* lock() returns the guard to the worker's task
WorkerLock(i) ==
    /\ running[i].pc \in {"lock", "chunk_lock"}
    /\ LockFree
    /\ embedder' = "worker"
    /\ running' = [running EXCEPT ![i].pc = ModelPc(running[i].pc)]
    /\ UNCHANGED <<mem, fts, chunks, cache, exists, queue, now, session, ret, handlers>>

\* lock() returns a PoisonError: embed is an Err and the job ends
WorkerLockErr(i) ==
    /\ running[i].pc \in {"lock", "chunk_lock"}
    /\ embedder = Poisoned
    /\ JobEnds(i)
    /\ UNCHANGED <<mem, fts, chunks, cache, exists, queue, now, session, ret,
                   handlers, embedder>>

\* TextEmbedding::embed ends under the worker's guard: with the vector, which
\* store_cached_embedding keeps, with an Err that ends the job, or with a
\* panic that ends the task (a JoinError the loop drops) and poisons the lock
WorkerEmbedded(i) ==
    LET t == running[i]
        db == t.job.db_path
        text == TaskText(t)
    IN  /\ t.pc \in {"model", "chunk_model"}
        /\ embedder = "worker"
        /\ \/ /\ cache' = [cache EXCEPT
                      ![db] = store_cached_embedding(cache[db], text, MODEL_NAME, Embed(text))]
              /\ running' = [running EXCEPT
                      ![i] = Task(t.job, AfterPc(t.pc), t.idx, Embed(text))]
              /\ embedder' = Unlocked
           \/ /\ JobEnds(i)
              /\ embedder' = Unlocked
              /\ UNCHANGED cache
           \/ /\ JobEnds(i)
              /\ embedder' = Poisoned
              /\ UNCHANGED cache
        /\ UNCHANGED <<mem, fts, chunks, exists, queue, now, session, ret, handlers>>

\* the worker, its calls of embed taken step by step
WorkerLocking ==
    \/ WorkerRecv
    \/ \E i \in DOMAIN running :
          \/ WorkerLookup(i)
          \/ WorkerLock(i)
          \/ WorkerLockErr(i)
          \/ WorkerEmbedded(i)
          \/ WorkerUpdate(i)
          \/ WorkerDeleteChunks(i)
          \/ WorkerChunkInsert(i)

(***************************************************************************)
(* SpecEmbedder: two search handlers and the worker share the Embedder.    *)
(* Long is saved in the global corpus, the worker embeds it and its        *)
(* chunks, and both handlers search.  A thread that lock() blocks is woken *)
(* when the guard is dropped: a caller that can take the lock again and    *)
(* again does take it (strong fairness), and a step that stays possible is *)
(* taken (weak fairness).                                                  *)
(***************************************************************************)
NextEmbedder ==
    \/ Save("global", "note", Long, <<>>, "")
    \/ \E h \in HandlerIds : SearchCall(h, RankQuery, "global", 1)
    \/ \E h \in HandlerIds : SearchLock(h)
    \/ \E h \in HandlerIds : SearchLockErr(h)
    \/ \E h \in HandlerIds : SearchEmbedded(h)
    \/ \E h \in HandlerIds : SearchStores(h)
    \/ WorkerLocking

SpecEmbedder ==
    /\ Init
    /\ [][NextEmbedder]_vars
    /\ \A h \in HandlerIds : SF_vars(SearchLock(h))
    /\ \A h \in HandlerIds : WF_vars(SearchEmbedded(h))
    /\ SF_vars(\E i \in DOMAIN running : WorkerLock(i))
    /\ WF_vars(\E i \in DOMAIN running : WorkerEmbedded(i))

(***************************************************************************)
(* The Embedder.                                                           *)
(***************************************************************************)
\* the callers of embed that are inside TextEmbedding::embed
InModel ==
    {h \in HandlerIds : handlers[h].pc = "model"}
    \cup {"worker" : i \in {j \in DOMAIN running : running[j].pc \in {"model", "chunk_model"}}}

\* the callers of embed that lock() blocks
AtLock ==
    {h \in HandlerIds : handlers[h].pc = "lock"}
    \cup {"worker" : i \in {j \in DOMAIN running : running[j].pc \in {"lock", "chunk_lock"}}}

Types == {"note", "decision"}
TypeContents == {K1, K2}

NextTypes ==
    \/ Tick
    \/ \E ty \in Types, k \in TypeContents : Save("global", ty, k, <<>>, "")

SpecTypes == Init /\ [][NextTypes]_vars

(***************************************************************************)
(* Dedup and types.                                                        *)
(***************************************************************************)
\* the rows of the corpus that duplicate content, exactly or by Jaccard
Duplicates(rows, content) ==
    {r \in rows : r.content = content
                  \/ AtLeast(jaccard_sim(content, r.content), THRESHOLD_PCT)}

\* C32: a save of a type leaves every record of another type as it is; and
\* when the records that duplicate the saved content, exactly or nearly, all
\* have another type (and there is one), the save returns dedup "new" with
\* an id of its own and the corpus has one row more.
C32_DedupKeepsToItsType ==
    [][\A ty \in Types, k \in TypeContents :
          Save("global", ty, k, <<>>, "") =>
              LET rows == mem["global"]
                  dup == Duplicates(rows, k)
              IN  /\ {r \in rows : r.type # ty} \subseteq mem'["global"]
                  /\ (dup # {} /\ \A r \in dup : r.type # ty) =>
                        /\ ret'.dedup = "new"
                        /\ ret'.id \notin {r.id : r \in rows}
                        /\ rows \subseteq mem'["global"]
                        /\ Cardinality(mem'["global"]) = Cardinality(rows) + 1]_vars

\* K1 was saved as a decision while a note held K1 or its near-duplicate:
\* the save was new and the corpus holds both records
C32_Witness ==
    /\ ret.dedup = "new"
    /\ ret.content = K1
    /\ ret.id = generate_id(K1, "decision", now)
    /\ \E r \in mem["global"] : r.type = "note" /\ r.content \in {K1, K2}
    /\ \E r \in mem["global"] : r.id = ret.id /\ r.type = "decision" /\ r.content = K1

(***************************************************************************)
(* SpecChunkLoop: chunk_text, its loop taken one iteration at a time.  The *)
(* call and the loop's variables are in ret; a call that has not returned  *)
(* goes on (weak fairness).                                                *)
(***************************************************************************)
\* the most iterations the model lets the loop of chunk_text make
MaxIterations == 12

\* a call of chunk_text inside its loop: start and the chunks pushed so far
ChunkLoopOf(text, chunk_size, overlap, start, out, done) ==
    [text |-> text, chunk_size |-> chunk_size, overlap |-> overlap,
     start |-> start, chunks |-> out, done |-> done]

\* the first n words of TenWords, bare and with whitespace around them
LoopTexts ==
    {SubSeq(TenWords, 1, n) : n \in 0..MaxTextLen}
    \cup {<<Gap>> \o SubSeq(TenWords, 1, n) \o <<Gap>> : n \in 0..MaxTextLen}
    \cup {TenWords}

InitChunkLoop ==
    /\ mem = [c \in Corpora |-> {}]
    /\ fts = [c \in Corpora |-> {}]
    /\ chunks = [c \in Corpora |-> {}]
    /\ cache = [c \in Corpora |-> {}]
    /\ exists = {"global", "personality"}
    /\ queue = <<>>
    /\ running = <<>>
    /\ now = 0
    /\ session = DefaultSession
    /\ handlers = NoHandlers
    /\ embedder = Unlocked
    /\ ret \in {ChunkLoopOf(t, s, o, 0, <<>>, FALSE) :
                   t \in LoopTexts, s \in 1..MaxChunkSize, o \in 0..(MaxChunkSize - 1)}
    /\ ret.chunk_size > ret.overlap

\* a loop whose start stays where it is
StartAfter_stuck(start, chunk_size, overlap) == start

\* start += chunk_size - overlap
StartAfter(start, chunk_size, overlap) == start + (chunk_size - overlap)

\* chunk_text: the early return of a short text, or one iteration of the loop
ChunkLoop ==
    LET words == split_whitespace(ret.text)
        end == Min(ret.start + ret.chunk_size, Len(words))
        chunk == SubSeq(words, ret.start + 1, end)
    IN  /\ "start" \in DOMAIN ret
        /\ ~ret.done
        /\ Len(ret.chunks) < MaxIterations
        /\ IF Len(words) <= ret.chunk_size
           THEN ret' = [ret EXCEPT !.chunks = <<ret.text>>, !.done = TRUE]
           ELSE IF ret.start < Len(words)
           THEN IF end >= Len(words)
                THEN ret' = [ret EXCEPT !.chunks = Append(ret.chunks, chunk), !.done = TRUE]
                ELSE ret' = [ret EXCEPT
                                !.chunks = Append(ret.chunks, chunk),
                                !.start = StartAfter(ret.start, ret.chunk_size, ret.overlap)]
           ELSE ret' = [ret EXCEPT !.done = TRUE]
        /\ UNCHANGED <<mem, fts, chunks, cache, exists, queue, running, now, session,
                       handlers, embedder>>

NextChunkLoop == ChunkLoop

SpecChunkLoop == InitChunkLoop /\ [][NextChunkLoop]_vars /\ WF_vars(ChunkLoop)

(***************************************************************************)
(* Chunking: termination and coverage.                                     *)
(***************************************************************************)
\* the 1-based token positions of window k: it starts (k - 1) * (size -
\* overlap) tokens after the first token and does not pass the last
WindowAt(k, n, chunk_size, overlap) ==
    {i \in 1..n : /\ i > (k - 1) * (chunk_size - overlap)
                  /\ i <= (k - 1) * (chunk_size - overlap) + chunk_size}

\* C33: every call of chunk_text with chunk_size > overlap >= 0 returns, and
\* what it returns is what chunk_text is; when the text has more than
\* chunk_size tokens, chunk k holds the tokens of the window that starts
\* (k - 1) * (chunk_size - overlap) tokens after the first token (so that the
\* first chunk starts at the first token and each window starts chunk_size -
\* overlap after the one before), the last chunk ends at the last token, and
\* every token position is in one of the windows.
C33_ChunkTerminatesAndCovers ==
    /\ <>(ret.done)
    /\ [](ret.done =>
            LET words == split_whitespace(ret.text)
                n == Len(words)
                m == Len(ret.chunks)
            IN  /\ ret.chunks = chunk_text(ret.text, ret.chunk_size, ret.overlap)
                /\ n > ret.chunk_size =>
                      /\ m >= 1
                      /\ \A k \in 1..m :
                            LET w == WindowAt(k, n, ret.chunk_size, ret.overlap)
                            IN  /\ w # {}
                                /\ ret.chunks[k] = [i \in 1..Cardinality(w) |->
                                                       words[(k - 1) * (ret.chunk_size - ret.overlap) + i]]
                      /\ n \in WindowAt(m, n, ret.chunk_size, ret.overlap)
                      /\ \A i \in 1..n :
                            \E k \in 1..m : i \in WindowAt(k, n, ret.chunk_size, ret.overlap))

\* the call on the ten words with chunk_size 3 and overlap 2 has returned,
\* after eight iterations
C33_Witness ==
    /\ ret.done
    /\ ret.text = TenWords
    /\ ret.chunk_size = 3
    /\ ret.overlap = 2
    /\ Len(ret.chunks) = 8
    /\ ret.chunks[8] = <<"h", "i", "j">>

(***************************************************************************)
(* memory_save on the task of a handler, step by step: find_duplicate, the *)
(* UPDATE or the INSERT OR REPLACE (each statement is its own              *)
(* transaction), queue_embedding.  Between two of the steps other handlers *)
(* and the worker run.                                                     *)
(***************************************************************************)
\* a tool handler inside memory_save: its arguments, and the SaveResult once
\* save_memory has it
SaveTask(pc, db, mem_type, content, tags, id, dedup) ==
    [pc |-> pc, db |-> db, mem_type |-> mem_type, content |-> content, tags |-> tags,
     id |-> id, dedup |-> dedup]

\* memory_save is called: the checks of its arguments, the tags, init_db
SaveCall(h, scope, mem_type, content, tags, project_name) ==
    /\ handlers[h] = Idle
    /\ IF content = Empty
       THEN /\ ret' = NoSave
            /\ UNCHANGED <<exists, handlers>>
       ELSE /\ exists' = exists \cup {resolve_save_db(scope)}
            /\ handlers' = [handlers EXCEPT
                    ![h] = SaveTask("dedup", resolve_save_db(scope), mem_type, content,
                                    SaveTags(scope, tags, project_name), NULL, "")]
            /\ UNCHANGED ret
    /\ UNCHANGED <<mem, fts, chunks, cache, queue, running, now, session, embedder>>

\* save_memory: the dedup check
SaveLookup(h) ==
    LET t == handlers[h]
        existing_id == IF t.mem_type # "conversation"
                       THEN find_duplicate(mem[t.db], fts[t.db], t.content, t.mem_type,
                                           THRESHOLD_PCT)
                       ELSE NULL
    IN  /\ "dedup" \in DOMAIN t
        /\ t.pc = "dedup"
        /\ handlers' = [handlers EXCEPT ![h].pc = "write", ![h].id = existing_id]
        /\ UNCHANGED <<mem, fts, chunks, cache, exists, queue, running, now, session, ret,
                       embedder>>

\* UPDATE memories ... WHERE id = ? on a table that may not hold the id any more
SqlUpdateContentWhere(c, id, content, tags) ==
    IF RowsWithId(mem[c], id) = {}
    THEN <<mem[c], fts[c], chunks[c]>>
    ELSE SqlUpdateContent(c, id, content, tags)

\* save_memory: the UPDATE of the duplicate, or generate_id and the INSERT OR
\* REPLACE
SaveWrite(h) ==
    LET t == handlers[h]
        mem_id == generate_id(t.content, t.mem_type, now)
        res == IF t.id # NULL
               THEN [tables |-> SqlUpdateContentWhere(t.db, t.id, t.content, t.tags),
                     id |-> t.id, dedup |-> "updated"]
               ELSE [tables |-> SqlInsertOrReplace(t.db, mem_id, t.mem_type, t.content, t.tags),
                     id |-> mem_id, dedup |-> "new"]
    IN  /\ "dedup" \in DOMAIN t
        /\ t.pc = "write"
        /\ res.dedup = "new" => NewRowid(mem[t.db]) <= MaxRowid
        /\ (res.dedup = "new" /\ RowsWithId(mem[t.db], res.id) = {}) => TotalRows < MaxRows
        /\ mem' = [mem EXCEPT ![t.db] = res.tables[1]]
        /\ fts' = [fts EXCEPT ![t.db] = res.tables[2]]
        /\ chunks' = [chunks EXCEPT ![t.db] = res.tables[3]]
        /\ handlers' = [handlers EXCEPT ![h].pc = "enqueue", ![h].id = res.id,
                                        ![h].dedup = res.dedup]
        /\ UNCHANGED <<cache, exists, queue, running, now, session, ret, embedder>>

\* memory_save: queue_embedding, and the handler returns
SaveEnqueue(h) ==
    LET t == handlers[h]
    IN  /\ "dedup" \in DOMAIN t
        /\ t.pc = "enqueue"
        /\ queue' = queue_embedding(queue, t.db, t.id, t.content)
        /\ ret' = SaveReturn(t.db, t.content, t.id, t.dedup, HasRoom(queue))
        /\ handlers' = [handlers EXCEPT ![h] = Idle]
        /\ UNCHANGED <<mem, fts, chunks, cache, exists, running, now, session, embedder>>

(***************************************************************************)
(* SpecSaves: two handlers save notes in the global corpus at once, K1 and *)
(* its near-duplicate K2, while the clock moves and the worker embeds.     *)
(* Every job finds room in the channel and every call of the Embedder      *)
(* returns a vector.                                                       *)
(***************************************************************************)
NextSaves ==
    \/ Tick
    \/ \E h \in HandlerIds, k \in StoreContents : SaveCall(h, "global", "note", k, <<>>, "")
    \/ \E h \in HandlerIds : SaveLookup(h)
    \/ \E h \in HandlerIds : SaveWrite(h)
    \/ \E h \in HandlerIds : HasRoom(queue) /\ SaveEnqueue(h)
    \/ WorkerRecv
    \/ \E i \in DOMAIN running : WorkerEmbed(i) /\ Len(running') = Len(running)
    \/ \E i \in DOMAIN running : WorkerUpdate(i)

SpecSaves == Init /\ [][NextSaves]_vars

(***************************************************************************)
(* Concurrent saves.                                                       *)
(***************************************************************************)
\* no handler is inside a tool call, no job waits and the worker is idle
Quiescent ==
    /\ \A h \in HandlerIds : handlers[h] = Idle
    /\ queue = <<>>
    /\ running = <<>>

\* C34: whenever no handler is inside a call, the queue is empty and the
\* worker is idle (no job was dropped and no call of the Embedder failed),
\* every memory with an embedding holds the embedding of its content.
C34_EmbeddingFollowsContent ==
    Quiescent =>
        \A c \in Corpora : \A r \in mem[c] :
            r.embedding # NULL => r.embedding = f32_to_bytes(Embed(r.content))

\* C35: no two records of a corpus that are not conversations have the same
\* type and the same content.
C35_NoTwoRecordsOfOneContent ==
    \A c \in Corpora : \A r, s \in mem[c] :
        (r.type # "conversation" /\ r.type = s.type /\ r.content = s.content) => r = s

(***************************************************************************)
(* The frame of an embed job.                                              *)
(***************************************************************************)
\* the job a step of the worker is for: the one rx.recv() yields, or the one
\* of the task in flight
JobOfStep == IF running = <<>> THEN Head(queue) ELSE running[1].job

\* C36: a step of the worker leaves, in every corpus, the ids of the
\* memories and every field of every memory but embedding as they are (the
\* rowid as well); and when no memory of the job's corpus has the job's
\* record id, the step leaves the memories and the chunks of that corpus
\* unchanged.
C36_JobWritesEmbeddingOnly ==
    [][(running' # running /\ (running # <<>> \/ queue # <<>>)) =>
          /\ \A c \in Corpora :
                /\ Cardinality(mem'[c]) = Cardinality(mem[c])
                /\ \A r \in mem[c] :
                      \E s \in mem'[c] : s = [r EXCEPT !.embedding = s.embedding]
          /\ RowsWithId(mem[JobOfStep.db_path], JobOfStep.record_id) = {} =>
                /\ mem'[JobOfStep.db_path] = mem[JobOfStep.db_path]
                /\ chunks'[JobOfStep.db_path] = chunks[JobOfStep.db_path]]_vars

\* the task of a job whose memory was deleted has run its UPDATE and its
\* DELETE and is at the INSERT of the first chunk, which the foreign key
\* refuses; the corpus holds no memory and no chunk
C36_Witness ==
    /\ running # <<>>
    /\ running[1].pc = "chunk_insert"
    /\ running[1].job.db_path = "global"
    /\ RowsWithId(mem["global"], running[1].job.record_id) = {}
    /\ chunks["global"] = {}
    /\ ENABLED (WorkerChunkInsert(1) /\ running' = <<>>)

(***************************************************************************)
(* SpecWorker: the worker under fair scheduling.  K1 and Long are saved in *)
(* the global corpus again and again; the worker's calls of embed return a *)
(* vector, return an Err or panic.  The runtime runs the worker's loop and *)
(* its blocking task whenever they can take a step (weak fairness); the    *)
(* channel is never closed.                                                *)
(***************************************************************************)
WorkerContents == {K1, Long}

NextWorker ==
    \/ \E k \in WorkerContents : Save("global", "note", k, <<>>, "")
    \/ WorkerLocking

SpecWorker == Init /\ [][NextWorker]_vars /\ WF_vars(WorkerLocking)

(***************************************************************************)
(* The worker's progress.                                                  *)
(***************************************************************************)
\* the jobs the saves of SpecWorker enqueue
WorkerJobs == {EmbeddingJob("global", generate_id(k, "note", 0), k) : k \in WorkerContents}

\* the worker's task is running job j
InFlight(j) == running # <<>> /\ running[1].job = j

\* C37: every job in the queue is taken by the worker later, and every job
\* the worker has taken is finished later; and the end of a job, whether it
\* succeeded, failed or panicked, takes no job out of the queue, so that the
\* jobs behind it are taken in their turn.
C37_AcceptedJobsAreProcessed ==
    /\ \A j \in WorkerJobs : (j \in Range(queue)) ~> InFlight(j)
    /\ \A j \in WorkerJobs : InFlight(j) ~> (running = <<>>)
    /\ [](Range(queue) \subseteq WorkerJobs)
    /\ [][(running # <<>> /\ running' = <<>>) => queue' = queue]_vars

\* a call of embed has panicked and poisoned the lock; the worker has taken
\* the job behind the one that panicked and one more job waits
C37_Witness ==
    /\ embedder = Poisoned
    /\ running # <<>>
    /\ running[1].pc = "lock"
    /\ queue # <<>>

(***************************************************************************)
(* SpecIsolation: the three corpora side by side.  Long is saved in the    *)
(* global corpus and K1 in the personality corpus, memories are deleted by *)
(* id in each of the three corpora (also by an id that lives in another    *)
(* corpus), each is compacted, and the worker embeds and chunks.           *)
(***************************************************************************)
IsolationSaves == {<<"global", Long>>, <<"personality", K1>>}

NextIsolation ==
    \/ \E p \in IsolationSaves : Save(p[1], "note", p[2], <<>>, "")
    \/ \E s \in Corpora, id \in KnownIds : Delete(s, id)
    \/ \E s \in Corpora : Compact(s)
    \/ Worker

SpecIsolation == Init /\ [][NextIsolation]_vars

(***************************************************************************)
(* Isolation of the corpora.                                               *)
(***************************************************************************)
\* the step leaves the tables of corpus c as they are
Untouched(c) ==
    /\ mem'[c] = mem[c]
    /\ fts'[c] = fts[c]
    /\ chunks'[c] = chunks[c]
    /\ cache'[c] = cache[c]

\* C38: a save, a delete or a compact with scope global, personality or
\* project leaves the memories, the chunks, the FTS index and the cache of
\* the two other corpora unchanged, and every job it puts in the queue names
\* the corpus of the scope; and a step of the worker leaves every corpus but
\* the one its job names unchanged.
C38_CorporaAreIsolated ==
    [][/\ \A s \in Corpora :
             (\/ \E p \in IsolationSaves : p[1] = s /\ Save(s, "note", p[2], <<>>, "")
              \/ \E id \in KnownIds : Delete(s, id)
              \/ Compact(s))
             => /\ \A c \in Corpora \ {s} : Untouched(c)
                /\ \A i \in (Len(queue) + 1)..Len(queue') : queue'[i].db_path = s
       /\ (running' # running /\ (running # <<>> \/ queue # <<>>))
             => \A c \in Corpora \ {JobOfStep.db_path} : Untouched(c)]_vars

\* the global corpus holds the memory of Long with its embedding, its two
\* chunks and the cached vectors, the personality corpus holds the memory of
\* K1 with its embedding, and the last call saved in the personality corpus
C38_Witness ==
    /\ ret.db = "personality"
    /\ \E r \in mem["global"] : r.embedding # NULL
    /\ Cardinality(chunks["global"]) = 2
    /\ \E r \in mem["personality"] : r.embedding # NULL
    /\ cache["global"] # {}
    /\ cache["personality"] # {}
    /\ queue # <<>>

(***************************************************************************)
(* SpecMerge: dedup-updates beside another record.  Wordy is saved as a    *)
(* note in the global corpus while it is empty; its duplicate by Jaccard   *)
(* Brief and the unrelated K3 are saved there at any time, while the clock *)
(* moves and the worker embeds and chunks.                                 *)
(***************************************************************************)
MergeContents == {Wordy, Brief, K3}

NextMerge ==
    \/ Tick
    \/ mem["global"] = {} /\ Save("global", "note", Wordy, <<>>, "")
    \/ \E k \in {Brief, K3} : Save("global", "note", k, <<>>, "")
    \/ Worker

SpecMerge == Init /\ [][NextMerge]_vars

(***************************************************************************)
(* The frame of a dedup-update.                                            *)
(***************************************************************************)
\* C39: a save that returns dedup "updated" leaves the matched record its
\* id, its type, its created_at (and its rowid) and gives it the saved
\* content; every other memory of the corpus and every chunk row, those of
\* the matched record as well, are as they were before.
C39_MergeChangesOneRecord ==
    [][\A k \in MergeContents :
          (Save("global", "note", k, <<>>, "") /\ ret'.dedup = "updated") =>
              LET old == RowsWithId(mem["global"], ret'.id)
                  new == RowsWithId(mem'["global"], ret'.id)
              IN  /\ Cardinality(old) = 1
                  /\ Cardinality(new) = 1
                  /\ \A o \in old : \A n \in new :
                        /\ n = [o EXCEPT !.content = k, !.tags = n.tags,
                                         !.updated_at = n.updated_at,
                                         !.embedding = n.embedding]
                  /\ mem'["global"] \ new = mem["global"] \ old
                  /\ chunks' = chunks]_vars

\* Brief was saved at a later reading of the clock over the record of Wordy,
\* which keeps its id, its created_at and its two chunks, beside the record
\* of K3
C39_Witness ==
    /\ ret.dedup = "updated"
    /\ ret.content = Brief
    /\ \E r \in mem["global"] :
          /\ r.id = ret.id
          /\ r.id = generate_id(Wordy, "note", 0)
          /\ r.content = Brief
          /\ r.created_at = 0
          /\ r.updated_at = 1
    /\ Cardinality({k \in chunks["global"] : k.memory_id = ret.id}) = 2
    /\ \E r \in mem["global"] : r.content = K3

====
